---- MODULE Spec2Model ----
(***************************************************************************)
(* Verification model of flux-core subsystems.                             *)
(*                                                                         *)
(*  Part E  job-manager housekeeping (src/modules/job-manager/housekeeping.c)*)
(*  Part D  scratchpad LL/SC store   (src/modules/scratchpad/scratchpad.c) *)
(*  Part C  overlay router           (src/broker/overlay.c)                *)
(*  Part F  flux_msg_t               (src/common/libflux/message.c)        *)
(*  Part G  child watchers           (src/common/libsubprocess)            *)
(*  Part H  system jobs              (src/modules/job-manager/sysjob.c)    *)
(*                                                                         *)
(* Each part has its own next-state relation and specification; the        *)
(* variables of the other parts are left unchanged.                        *)
(***************************************************************************)
EXTENDS Integers, Sequences, FiniteSets, TLC

(***************************************************************************)
(* Bounds of the model.                                                    *)
(***************************************************************************)
\* hk->size: number of broker ranks.  Valid ranks are 0..Size-1.
Size == 2

\* Number of jobs handed to housekeeping_start (ids 1..MaxJobs, increasing).
MaxJobs == 2

\* Number of scratchpad clients (message senders 1..NumClients).
NumClients == 2

\* Cap on the scratchpad's global version (ctx->version).
MaxVersion == 3

\* Number of sc-stream requests received over a run.
MaxStreams == 1

\* Cap on the responses sent to one sc-stream request.
MaxResp == 3

\* Number of elements each client appends in the append loop.
NumAppends == 2

\* housekeeping.c:87  -1 = never, 0 = immediate, >0 = time in seconds
default_release_after == -1

\* Ranks that may appear in a job's R.  Rank Size is out of range for
\* hk->targets and exercises the "rank >= hk->size" check.
Ranks == 0..Size

Jobs == 1..MaxJobs

VARIABLES
    \* ---- housekeeping (struct housekeeping, struct allocation) ----
    cmd,            \* hk->cmd != NULL
    release_after,  \* hk->release_after
    allocations,    \* hk->allocations: job id -> struct allocation
    targets,        \* hk->targets[rank].f: "NULL" or the future's progress
    nscripts,       \* remote executions in flight per rank (exec service)
    frees,          \* free requests sent to the scheduler, per job
    jobs,           \* what housekeeping_start was called with, per job
    next_id,        \* next job id to be handed to housekeeping_start
    sysjobs,        \* ids for which hack() issued sysjob_create
    dropped,        \* ids whose allocation a scheduler hello deleted
    out,            \* what the latest step logged or sent besides frees
    \* ---- scratchpad (struct scratchpad) ----
    sp_data,        \* ctx->data: key -> [version, data], present keys only
    sp_version,     \* ctx->version
    sp_requests,    \* ctx->requests: indices into sp_streams, list order
    sp_streams,     \* every sc-stream request received, with its responses
    sp_link,        \* per client: what its latest ll of key "a" returned
    sp_out,         \* the response the latest step sent to its own request
    \* ---- scratchpad clients running the append loop ----
    ap,             \* per client: appends done, and the response it holds
    \* ---- overlay router (struct overlay) of one broker ----
    ov,             \* geometry, sockets, children, monitor requests
    ov_out,         \* what the latest call sent, delivered and returned
    \* ---- two brokers joined by one overlay hop ----
    hop,            \* the message in flight between parent and child
    \* ---- one flux_msg_t and its wire form ----
    fm,             \* the message under construction
    fm_out,         \* what the latest message call returned
    \* ---- child watchers of one reactor ----
    cw,             \* processes, cw_hash, watchers and the reactor's loop
    \* ---- system jobs ----
    sj              \* the jobs and their exec contexts

hkVars == <<cmd, release_after, allocations, targets, nscripts,
            frees, jobs, next_id, sysjobs, dropped, out>>

spVars == <<sp_data, sp_version, sp_requests, sp_streams, sp_link, sp_out>>

apVars == <<ap>>

ovVars == <<ov, ov_out>>

hopVars == <<hop>>

msgVars == <<fm, fm_out>>

cwVars == <<cw>>

sjVars == <<sj>>

vars == <<hkVars, spVars, apVars, ovVars, hopVars, msgVars, cwVars, sjVars>>

(***************************************************************************)
(* Part E: housekeeping                                                    *)
(***************************************************************************)

\* Ghost record of a job not yet handed to housekeeping_start
NoJob == [R |-> {}, sys |-> FALSE, hk |-> FALSE, steady |-> TRUE,
          startfail |-> {}]

NoResp == [j \in Jobs |-> 0]

\* Nothing sent or loaded by the latest step
NoOut == [kind |-> "none", resp |-> NoResp, fail |-> {}, missing |-> {},
          ra_key |-> ""]

Started == {j \in Jobs : jobs[j].R # {}}

Tracked == DOMAIN allocations

ValidRanks == 0..(Size - 1)

\* struct allocation after allocation_create
allocation_create(R) ==
    [rl |-> R, pending |-> R, timer_armed |-> FALSE,
     timer_expired |-> FALSE, free_count |-> 0]

\* ranks of a->rl that are not pending
get_housekept_ranks(a) == a.rl \ a.pending

\* Mutant: releases everything left in a->rl, pending or not
ReleaseAll(a) ==
    IF a.rl = {}
    THEN [a |-> a, sent |-> {}]
    ELSE [a |-> [a EXCEPT !.rl = {}, !.free_count = @ + 1], sent |-> a.rl]

\* Mutant: the ranks that were freed stay in a->rl
ReleaseKeepsRl(a) ==
    LET ranks == get_housekept_ranks(a)
    IN  IF ranks = {}
        THEN [a |-> a, sent |-> {}]
        ELSE [a |-> [a EXCEPT !.free_count = @ + 1], sent |-> ranks]

\* allocation_release: [a |-> allocation afterwards, sent |-> ranks freed]
\* (sent = {} when no request is sent).  alloc_send_free_request is taken
\* to succeed.
allocation_release(a) ==
    LET ranks == get_housekept_ranks(a)
    IN  IF ranks = {}
        THEN [a |-> a, sent |-> {}]
        ELSE [a |-> [a EXCEPT !.rl = @ \ ranks, !.free_count = @ + 1],
              sent |-> ranks]

\* Mutant: releases at every completion, whatever the policy
ReleaseNowAlways(a, ra) == TRUE

\* The test of housekeeping_finish_one that releases right after a rank
\* was cleared from a->pending
ReleaseNow(a, ra) == a.pending = {} \/ ra = 0 \/ a.timer_expired

\* Mutant: the timer is never armed
FinishOneNoArm(a, rank, ra) ==
    LET a1 == [a EXCEPT !.pending = @ \ {rank}]
    IN  IF ReleaseNow(a1, ra)
        THEN allocation_release(a1)
        ELSE [a |-> a1, sent |-> {}]

\* Body of the loop of housekeeping_finish_one for one allocation that has
\* 'rank' pending: [a, sent]
FinishOneAlloc(a, rank, ra) ==
    LET a1 == [a EXCEPT !.pending = @ \ {rank}]
        r2 == IF ReleaseNow(a1, ra)
              THEN allocation_release(a1)
              ELSE [a |-> a1, sent |-> {}]
        a3 == IF ~r2.a.timer_armed /\ ra > 0
              THEN [r2.a EXCEPT !.timer_armed = TRUE]
              ELSE r2.a
    IN  [a |-> a3, sent |-> r2.sent]

\* Result of the loop for allocation j
FinishResult(j, rank) ==
    IF rank \in allocations[j].pending
    THEN FinishOneAlloc(allocations[j], rank, release_after)
    ELSE [a |-> allocations[j], sent |-> {}]

AppendIf(s, ranks) == IF ranks = {} THEN s ELSE Append(s, ranks)

\* housekeeping_finish_one: 'rank' has completed housekeeping
housekeeping_finish_one(rank) ==
    LET keep == {j \in Tracked : FinishResult(j, rank).a.rl # {}}
    IN  /\ allocations' = [j \in keep |-> FinishResult(j, rank).a]
        /\ frees' = [j \in Jobs |->
                       IF j \in Tracked
                       THEN AppendIf(frees[j], FinishResult(j, rank).sent)
                       ELSE frees[j]]

FinalKinds == {"ENODATA", "error"}
ProgressKinds == {"exit0", "exitN", "signal"}

\* housekeeping_continuation: a response of the remote execution on 'rank'
\*   "error"    subprocess_rexec_get fails, errno != ENODATA (exec error)
\*   "ENODATA"  end of the response stream
\*   others     subprocess_rexec_is_finished with that wait status: the
\*              status is logged and the future is reset, nothing else
housekeeping_continuation(rank, kind) ==
    /\ nscripts[rank] > 0
    /\ targets[rank]
    /\ out' = NoOut
    /\ IF kind \in FinalKinds
       THEN /\ targets' = [targets EXCEPT ![rank] = FALSE]
            /\ nscripts' = [nscripts EXCEPT ![rank] = @ - 1]
            /\ housekeeping_finish_one(rank)
       ELSE UNCHANGED <<targets, nscripts, allocations, frees>>
    /\ UNCHANGED <<cmd, release_after, jobs, next_id, sysjobs,
                   dropped>>

\* allocation_timeout: the allocation's one-shot timer fires
allocation_timeout(j) ==
    /\ j \in Tracked
    /\ allocations[j].timer_armed
    /\ ~allocations[j].timer_expired
    /\ LET a1 == [allocations[j] EXCEPT !.timer_expired = TRUE]
           r  == allocation_release(a1)
       IN  /\ allocations' =
                IF r.a.rl = {}
                THEN [k \in Tracked \ {j} |-> allocations[k]]
                ELSE [allocations EXCEPT ![j] = r.a]
           /\ frees' = [frees EXCEPT ![j] = AppendIf(@, r.sent)]
    /\ out' = NoOut
    /\ UNCHANGED <<cmd, release_after, targets, nscripts, jobs,
                   next_id, sysjobs, dropped>>

\* Mutant: launches without looking at hk->targets[rank].f
StartOneAlways(rank, tg, rexec_ok) ==
    IF rank >= Size THEN [rc |-> -1, launch |-> FALSE]
    ELSE IF ~rexec_ok THEN [rc |-> -1, launch |-> FALSE]
    ELSE [rc |-> 0, launch |-> TRUE]

\* Mutant: a failure of subprocess_rexec is not reported
StartOneLenient(rank, tg, rexec_ok) ==
    IF rank >= Size THEN [rc |-> -1, launch |-> FALSE]
    ELSE IF tg[rank] THEN [rc |-> 0, launch |-> FALSE]
    ELSE [rc |-> 0, launch |-> rexec_ok]

\* housekeeping_start_one: rc as returned, launch = subprocess_rexec issued
\* and stored in hk->targets[rank].f
housekeeping_start_one(rank, tg, rexec_ok) ==
    IF rank >= Size THEN [rc |-> -1, launch |-> FALSE]
    ELSE IF tg[rank] THEN [rc |-> 0, launch |-> FALSE]
    ELSE IF ~rexec_ok THEN [rc |-> -1, launch |-> FALSE]
    ELSE [rc |-> 0, launch |-> TRUE]

\* housekeeping_start (hk, job) with job->R = R, FLUX_JOB_SYSTEM = sys;
\* alloc_ok: allocation_create and zlistx_insert succeed;
\* okranks: ranks on which subprocess_rexec / flux_future_then succeed
housekeeping_start(R, sys, alloc_ok, okranks) ==
    LET id == next_id
        res(r) == housekeeping_start_one(r, targets, r \in okranks)
        pend == {r \in R : res(r).rc = 0}
        launched == {r \in R : res(r).launch}
        info == [R |-> R, sys |-> sys, hk |-> FALSE, steady |-> TRUE,
                 startfail |-> {}]
    IN  /\ next_id <= MaxJobs
        /\ next_id' = next_id + 1
        /\ out' = NoOut
        /\ IF ~cmd
           THEN \* goto skip
                /\ frees' = [frees EXCEPT ![id] = Append(@, R)]
                /\ jobs' = [jobs EXCEPT ![id] = info]
                /\ UNCHANGED <<allocations, targets, nscripts, sysjobs>>
           ELSE IF sys
           THEN \* return 0
                /\ jobs' = [jobs EXCEPT ![id] = info]
                /\ UNCHANGED <<allocations, targets, nscripts, sysjobs, frees>>
           ELSE IF ~alloc_ok
           THEN \* hack, then error saving alloc object: goto skip
                /\ sysjobs' = sysjobs \cup {id}
                /\ frees' = [frees EXCEPT ![id] = Append(@, R)]
                /\ jobs' = [jobs EXCEPT ![id] = info]
                /\ UNCHANGED <<allocations, targets, nscripts>>
           ELSE /\ sysjobs' = sysjobs \cup {id}
                /\ targets' = [r \in ValidRanks |->
                                 (r \in launched) \/ targets[r]]
                /\ nscripts' = [r \in ValidRanks |->
                                 IF r \in launched THEN nscripts[r] + 1
                                 ELSE nscripts[r]]
                /\ IF pend = {}
                   THEN \* zlistx_delete, goto skip
                        /\ frees' = [frees EXCEPT ![id] = Append(@, R)]
                        /\ jobs' = [jobs EXCEPT ![id] = info]
                        /\ UNCHANGED allocations
                   ELSE /\ allocations' =
                             [j \in Tracked \cup {id} |->
                                IF j = id
                                THEN [allocation_create(R)
                                        EXCEPT !.pending = pend]
                                ELSE allocations[j]]
                        /\ jobs' = [jobs EXCEPT
                                      ![id] = [info EXCEPT
                                                 !.hk = TRUE,
                                                 !.startfail = R \ pend]]
                        /\ UNCHANGED frees
        /\ UNCHANGED <<cmd, release_after, dropped>>

\* Mutant: a partially released allocation survives the hello
HelloKeepsPartial(a, isknown, respond_ok) ==
    \/ ~isknown
    \/ ~respond_ok

\* The test of housekeeping_hello_respond that deletes allocation a
HelloDrops(a, isknown, respond_ok) ==
    \/ a.free_count > 0
    \/ ~isknown
    \/ ~respond_ok

\* Whether flux_respond_pack is reached for allocation a
HelloResponds(a, isknown) == a.free_count = 0 /\ isknown

\* housekeeping_hello_respond
\*   missing: tracked ids found in neither ctx->inactive_jobs nor
\*            ctx->active_jobs (purged jobs)
\*   failset: tracked ids whose flux_respond_pack would fail
housekeeping_hello_respond(missing, failset) ==
    LET drop(j) == HelloDrops(allocations[j], j \notin missing,
                              j \notin failset)
        keep == {j \in Tracked : ~drop(j)}
        tried == {j \in Tracked :
                    HelloResponds(allocations[j], j \notin missing)}
    IN  /\ allocations' = [j \in keep |-> allocations[j]]
        /\ dropped' = dropped \cup (Tracked \ keep)
        /\ out' = [NoOut EXCEPT
                     !.kind = "hello",
                     !.resp = [j \in Jobs |->
                                 IF j \in tried \ failset THEN 1 ELSE 0],
                     !.fail = tried \cap failset,
                     !.missing = missing]
        /\ UNCHANGED <<cmd, release_after, targets, nscripts, frees,
                       jobs, next_id, sysjobs>>

\* hk->release_after after housekeeping_parse_config has looked at the
\* release-after key ("absent", "0", or a nonzero duration "d")
ParseReleaseAfter(ra_key, old) ==
    IF ra_key = "absent" THEN old
    ELSE IF ra_key = "0" THEN 0 ELSE 1

\* housekeeping_parse_config; cmdline is "absent", "empty" (create_cmd
\* fails and the callback reports an error) or "ok"
housekeeping_parse_config(cmdline, ra_key) ==
    LET ra == ParseReleaseAfter(ra_key, release_after)
    IN  /\ release_after' = ra
        /\ IF cmdline = "empty"
           THEN /\ UNCHANGED cmd
                /\ out' = NoOut
           ELSE /\ cmd' = (cmdline = "ok")
                /\ out' = [NoOut EXCEPT !.kind = "conf", !.ra_key = ra_key]
        /\ jobs' = [j \in Jobs |->
                      IF j \in Started /\ ra # release_after
                      THEN [jobs[j] EXCEPT !.steady = FALSE]
                      ELSE jobs[j]]
        /\ UNCHANGED <<allocations, targets, nscripts, frees, next_id,
                       sysjobs, dropped>>

\* housekeeping_ctx_create
HkInit ==
    /\ cmd = FALSE
    /\ release_after = default_release_after
    /\ allocations = [j \in {} |-> allocation_create({})]
    /\ targets = [r \in ValidRanks |-> FALSE]
    /\ nscripts = [r \in ValidRanks |-> 0]
    /\ frees = [j \in Jobs |-> <<>>]
    /\ jobs = [j \in Jobs |-> NoJob]
    /\ next_id = 1
    /\ sysjobs = {}
    /\ dropped = {}
    /\ out = NoOut

HkNext ==
    \/ \E R \in SUBSET Ranks \ {{}}, sys \in BOOLEAN, alloc_ok \in BOOLEAN :
         \E okranks \in SUBSET (R \cap ValidRanks) :
           housekeeping_start(R, sys, alloc_ok, okranks) /\ UNCHANGED <<spVars, apVars, ovVars, hopVars, msgVars, cwVars, sjVars>>
    \/ \E rank \in ValidRanks, kind \in FinalKinds \cup ProgressKinds :
         housekeeping_continuation(rank, kind) /\ UNCHANGED <<spVars, apVars, ovVars, hopVars, msgVars, cwVars, sjVars>>
    \/ \E j \in Jobs : allocation_timeout(j) /\ UNCHANGED <<spVars, apVars, ovVars, hopVars, msgVars, cwVars, sjVars>>
    \/ \E missing \in SUBSET Tracked, failset \in SUBSET Tracked :
         housekeeping_hello_respond(missing, failset) /\ UNCHANGED <<spVars, apVars, ovVars, hopVars, msgVars, cwVars, sjVars>>
    \/ \E cmdline \in {"absent", "empty", "ok"}, ra_key \in {"absent", "0", "d"} :
         housekeeping_parse_config(cmdline, ra_key) /\ UNCHANGED <<spVars, apVars, ovVars, hopVars, msgVars, cwVars, sjVars>>

(***************************************************************************)
(* Part D: scratchpad                                                      *)
(***************************************************************************)

Clients == 1..NumClients

\* Keys used by the clients; "." is the read-only key of the whole pad
Keys == {"a", "."}

\* json null
Null == 0

\* Opaque data values stored by the clients
Data == {1}

\* The matchtag every client uses for its streaming RPCs
Tag == 1

NoLink == [ver |-> -1, ok |-> FALSE]

NoSpOut == [op |-> "none", client |-> 0, key |-> "", status |-> ""]

\* lookup: [version, data] of key
lookup(key) ==
    IF key = "."
    THEN [version |-> sp_version,
          data |-> IF sp_version = 0 THEN Null ELSE sp_data]
    ELSE IF key \in DOMAIN sp_data
    THEN sp_data[key]
    ELSE [version |-> 0, data |-> Null]

\* Mutant: the key "." can be written like any other
UpdateErrnoNone(key) == ""

\* update: errno, or "" on success
update_errno(key) == IF key = "." THEN "EROFS" ELSE ""

\* update: ctx->data afterwards
update_data(key, version, data) ==
    IF key = "." THEN sp_data
    ELSE [k \in DOMAIN sp_data \cup {key} |->
            IF k = key THEN [version |-> version, data |-> data]
            ELSE sp_data[k]]

\* Mutant: a store leaves ctx->version alone
UpdateVersionSame(key) == sp_version

\* Mutant: a store counts twice
UpdateVersionTwice(key) == IF key = "." THEN sp_version ELSE sp_version + 2

\* update: ctx->version afterwards
update_version(key) == IF key = "." THEN sp_version ELSE sp_version + 1

\* A store on key "a" succeeded: every client's link to it is broken
BreakLinks(key) ==
    IF key = "a"
    THEN [c \in Clients |->
            IF sp_link[c] = NoLink THEN NoLink
            ELSE [sp_link[c] EXCEPT !.ok = FALSE]]
    ELSE sp_link

\* ll_cb: responds with lookup(key)
ll_cb(c, key) ==
    /\ sp_out' = [op |-> "ll", client |-> c, key |-> key, status |-> "ok"]
    /\ sp_link' = IF key = "a"
                  THEN [sp_link EXCEPT
                          ![c] = [ver |-> lookup(key).version, ok |-> TRUE]]
                  ELSE sp_link
    /\ UNCHANGED <<sp_data, sp_version, sp_requests, sp_streams>>

\* sc_cb
sc_cb(c, key, version, data) ==
    LET cur == lookup(key)
        errno == IF cur.version # version THEN "EDEADLK"
                 ELSE update_errno(key)
    IN  /\ sp_out' = [op |-> "sc", client |-> c, key |-> key,
                      status |-> IF errno = "" THEN "ok" ELSE errno]
        /\ IF errno = ""
           THEN /\ sp_data' = update_data(key, version + 1, data)
                /\ sp_version' = update_version(key)
                /\ sp_link' = BreakLinks(key)
           ELSE UNCHANGED <<sp_data, sp_version, sp_link>>
        /\ UNCHANGED <<sp_requests, sp_streams>>

\* sc_stream_cb; streaming: the request has the STREAMING flag
sc_stream_cb(c, matchtag, key, version, data, streaming) ==
    LET cur == lookup(key)
        match == cur.version = version
        errno == IF ~match THEN ""
                 ELSE IF update_errno(key) = "" THEN "ENODATA"
                 ELSE update_errno(key)
        req == [sender |-> c, matchtag |-> matchtag, key |-> key,
                resp |-> <<IF errno = "" THEN "data" ELSE errno>>]
    IN  IF ~streaming
        THEN /\ sp_out' = [op |-> "sc-stream", client |-> c, key |-> key,
                           status |-> "EINVAL"]
             /\ UNCHANGED <<sp_data, sp_version, sp_requests, sp_streams,
                            sp_link>>
        ELSE /\ sp_streams' = Append(sp_streams, req)
             /\ sp_requests' = IF errno = ""
                               THEN Append(sp_requests, Len(sp_streams) + 1)
                               ELSE sp_requests
             /\ IF errno = "ENODATA"
                THEN /\ sp_data' = update_data(key, version + 1, data)
                     /\ sp_version' = update_version(key)
                     /\ sp_link' = BreakLinks(key)
                ELSE UNCHANGED <<sp_data, sp_version, sp_link>>
             /\ sp_out' = NoSpOut

\* flux_cancel_match: same sender, and the matchtag named by the payload
flux_cancel_match(c, matchtag, req) ==
    req.sender = c /\ req.matchtag = matchtag

\* find_request: index in sp_streams of the first request of ctx->requests
\* that matches, 0 if none
find_request(c, matchtag) ==
    LET hits == {i \in 1..Len(sp_requests) :
                   flux_cancel_match(c, matchtag, sp_streams[sp_requests[i]])}
    IN  IF hits = {} THEN 0
        ELSE sp_requests[CHOOSE i \in hits : \A k \in hits : i <= k]

\* sc_retry_cb; noresponse: the request has the NORESPONSE flag
sc_retry_cb(c, matchtag, version, data, noresponse) ==
    LET n == find_request(c, matchtag)
        key == sp_streams[n].key
        cur == lookup(key)
        match == cur.version = version
        kind == IF ~match THEN "data"
                ELSE IF update_errno(key) = "" THEN "ENODATA"
                ELSE update_errno(key)
    IN  IF ~noresponse
        THEN /\ sp_out' = [NoSpOut EXCEPT !.op = "sc-retry", !.client = c,
                                          !.status = "EPROTO"]
             /\ UNCHANGED <<sp_data, sp_version, sp_requests, sp_streams,
                            sp_link>>
        ELSE IF n = 0
        THEN /\ sp_out' = NoSpOut
             /\ UNCHANGED <<sp_data, sp_version, sp_requests, sp_streams,
                            sp_link>>
        ELSE /\ sp_streams' = [sp_streams EXCEPT ![n].resp = Append(@, kind)]
             /\ IF kind = "ENODATA"
                THEN /\ sp_data' = update_data(key, version + 1, data)
                     /\ sp_version' = update_version(key)
                     /\ sp_link' = BreakLinks(key)
                ELSE UNCHANGED <<sp_data, sp_version, sp_link>>
             /\ sp_out' = NoSpOut
             /\ UNCHANGED sp_requests

\* delete_cb; noresponse: the request has the NORESPONSE flag
delete_cb(c, key, noresponse) ==
    IF ~noresponse
    THEN /\ sp_out' = [op |-> "delete", client |-> c, key |-> key,
                       status |-> "EPROTO"]
         /\ UNCHANGED <<sp_data, sp_version, sp_requests, sp_streams, sp_link>>
    ELSE /\ sp_out' = NoSpOut
         /\ IF key \in DOMAIN sp_data
            THEN /\ sp_data' = [k \in DOMAIN sp_data \ {key} |-> sp_data[k]]
                 /\ sp_version' = sp_version + 1
            ELSE UNCHANGED <<sp_data, sp_version>>
         /\ UNCHANGED <<sp_requests, sp_streams, sp_link>>

\* scratchpad_init
SpInit ==
    /\ sp_data = [k \in {} |-> [version |-> 0, data |-> Null]]
    /\ sp_version = 0
    /\ sp_requests = <<>>
    /\ sp_streams = <<>>
    /\ sp_link = [c \in Clients |-> NoLink]
    /\ sp_out = NoSpOut

\* The step stays within the bounds of the model
SpBounded ==
    /\ sp_version' <= MaxVersion
    /\ Len(sp_streams') <= MaxStreams
    /\ \A n \in 1..Len(sp_streams') : Len(sp_streams'[n].resp) <= MaxResp

SpNext ==
    \/ \E c \in Clients, key \in Keys :
         ll_cb(c, key) /\ SpBounded /\ UNCHANGED <<hkVars, apVars, ovVars, hopVars, msgVars, cwVars, sjVars>>
    \/ \E c \in Clients, key \in Keys, v \in 0..MaxVersion, d \in Data :
         sc_cb(c, key, v, d) /\ SpBounded /\ UNCHANGED <<hkVars, apVars, ovVars, hopVars, msgVars, cwVars, sjVars>>
    \/ \E c \in Clients, key \in Keys, v \in 0..MaxVersion, d \in Data,
          streaming \in BOOLEAN :
         /\ sc_stream_cb(c, Tag, key, v, d, streaming)
         /\ SpBounded /\ UNCHANGED <<hkVars, apVars, ovVars, hopVars, msgVars, cwVars, sjVars>>
    \/ \E c \in Clients, v \in 0..MaxVersion, d \in Data,
          noresponse \in BOOLEAN :
         /\ sc_retry_cb(c, Tag, v, d, noresponse)
         /\ SpBounded /\ UNCHANGED <<hkVars, apVars, ovVars, hopVars, msgVars, cwVars, sjVars>>
    \/ \E c \in Clients, key \in Keys, noresponse \in BOOLEAN :
         delete_cb(c, key, noresponse) /\ SpBounded /\ UNCHANGED <<hkVars, apVars, ovVars, hopVars, msgVars, cwVars, sjVars>>

(***************************************************************************)
(* Part D, clients: the atomic array append of "Design II"                 *)
(***************************************************************************)

\* A json array of elements 1..9 is written as the decimal number with
\* those digits, most recent element last; json null is 0 (Null).

\* Mutant: the new array holds the element alone
UpdateArrayAlone(data, element) == element

\* update_array: data with element appended, a one-element array for null
update_array(data, element) ==
    IF data = Null THEN element ELSE data * 10 + element

\* The i-th element client c appends
Element(c, i) == (c - 1) * NumAppends + i

\* A client between two appends
Idle(done) == [done |-> done, wait |-> FALSE, version |-> 0, data |-> Null]

\* The response the streaming RPC of client c got in this step: the latest
\* response of request n
SC_stream_get(n) == sp_streams'[n].resp[Len(sp_streams'[n].resp)]

\* After a response of the given kind: SC_stream_get returns 0 with the
\* version and data of the response, or fails and the append loop ends
AfterResponse(c, kind) ==
    IF kind = "data"
    THEN ap' = [ap EXCEPT ![c] = [done |-> @.done, wait |-> TRUE,
                                  version |-> lookup("a").version,
                                  data |-> lookup("a").data]]
    ELSE ap' = [ap EXCEPT ![c] = Idle(@.done + 1)]

\* SC_stream: client c starts its next append with version 0 and a
\* one-element array
SC_stream(c) ==
    /\ ~ap[c].wait
    /\ ap[c].done < NumAppends
    /\ sc_stream_cb(c, Tag, "a", 0,
                    update_array(Null, Element(c, ap[c].done + 1)), TRUE)
    /\ AfterResponse(c, SC_stream_get(Len(sp_streams')))

\* SC_retry: client c answers a non-terminal response with a retry based
\* on the version and data of that response
SC_retry(c) ==
    /\ ap[c].wait
    /\ sc_retry_cb(c, Tag, ap[c].version,
                   update_array(ap[c].data, Element(c, ap[c].done + 1)), TRUE)
    /\ AfterResponse(c, SC_stream_get(find_request(c, Tag)))

ApInit == ap = [c \in Clients |-> Idle(0)]

AppendNext ==
    \/ \E c \in Clients : SC_stream(c) /\ UNCHANGED <<hkVars, ovVars, hopVars, msgVars, cwVars, sjVars>>
    \/ \E c \in Clients : SC_retry(c) /\ UNCHANGED <<hkVars, ovVars, hopVars, msgVars, cwVars, sjVars>>

(***************************************************************************)
(* Part C: overlay router                                                  *)
(***************************************************************************)
\* Largest instance size given to overlay_set_geometry.
OvMaxSize == 3

\* Largest tree arity (tbon_k) given to overlay_set_geometry.
OvMaxK == 2

\* Cap on the streaming overlay.monitor requests held by one broker.
MaxMonitors == 2

\* The reactor's clock, in seconds, stops at MaxNow where a broker watches
\* its child and at MaxPauseNow where it pauses its sends to the parent.
MaxNow == 35

\* Cap on the streaming overlay.monitor requests held by that broker.
MaxPeerMonitors == 1
MaxPauseNow == 8

\* Cap on the messages held in test_backlog.
MaxBacklog == 3

\* Route ids on a message that goes through the codec
MaxRoutes == 2

\* Calls of flux_msg_route_push and flux_msg_route_delete_last that are
\* counted on one message
MaxPushes == 3

MaxPops == 3

\* Child processes forked and watched, and calls of flux_reactor_run
MaxChildren == 2

MaxRuns == 2

\* Jobs of the job manager, and sysjob_start calls for one job
MaxSysjobs == 2

MaxStarts == 3

\* overlay.c:1129  the rank before overlay_set_geometry.  The C value is
\* the largest uint32_t; it is only ever compared with ranks.
FLUX_NODEID_ANY == 2147483647

\* kary_childof, kary_parentof and kary_child_route return this for "none".
KARY_NONE == -1

\* overlay.c:33-37
KEEPALIVE_STATUS_NORMAL == 0

KEEPALIVE_STATUS_DISCONNECT == 1

KEEPALIVE_STATUS_TEST_PAUSE == 2

\* The uuid argument that flux_msg_route_last leaves NULL.
NULL == ""

\* snprintf (uuid, sizeof (uuid), "%lu", rank): the decimal form of a rank
rank_uuid(rank) ==
    <<"0", "1", "2", "3", "4", "5", "6", "7", "8", "9">>[rank + 1]

\* Peer ids that can be found on a route stack: the ranks of the largest
\* instance and "c", the uuid of a local client connection.
RouteIds == {rank_uuid(r) : r \in 0..(OvMaxSize - 1)} \cup {"c"}

\* flux_msg_t, as far as the overlay reads it.  routes lists the route
\* stack from its top (the list head, what flux_msg_route_last returns).
Msg(type, route, routes, upstream, nodeid, status) ==
    [type |-> type, route |-> route, routes |-> routes,
     upstream |-> upstream, nodeid |-> nodeid, status |-> status]

NoMsg == Msg("none", FALSE, <<>>, FALSE, 0, 0)

\* flux_msg_route_enable replaced by one that leaves the flags alone
RouteEnableNone(msg) == msg

\* flux_msg_route_enable: set FLUX_MSGFLAG_ROUTE
flux_msg_route_enable(msg) == [msg EXCEPT !.route = TRUE]

\* flux_msg_route_clear: drop every route of a message that has the flag
flux_msg_route_clear(msg) ==
    IF ~msg.route THEN msg ELSE [msg EXCEPT !.routes = <<>>]

\* flux_msg_route_push replaced by a push at the tail of the list
RoutePushTail(msg, id) ==
    IF ~msg.route
    THEN [rc |-> -1, errno |-> "EPROTO", msg |-> msg]
    ELSE [rc |-> 0, errno |-> "",
          msg |-> [msg EXCEPT !.routes = Append(@, id)]]

\* flux_msg_route_push: EPROTO without the flag, else list_add at the head
flux_msg_route_push(msg, id) ==
    IF ~msg.route
    THEN [rc |-> -1, errno |-> "EPROTO", msg |-> msg]
    ELSE [rc |-> 0, errno |-> "",
          msg |-> [msg EXCEPT !.routes = <<id>> \o @]]

\* flux_msg_route_delete_last replaced by one that removes nothing
RouteDeleteNone(msg) == [rc |-> 0, errno |-> "", msg |-> msg]

\* flux_msg_route_delete_last: EPROTO without the flag, else list_pop of
\* the head if there is one
flux_msg_route_delete_last(msg) ==
    IF ~msg.route
    THEN [rc |-> -1, errno |-> "EPROTO", msg |-> msg]
    ELSE [rc |-> 0, errno |-> "",
          msg |-> IF msg.routes = <<>> THEN msg
                  ELSE [msg EXCEPT !.routes = Tail(@)]]

\* flux_msg_route_last: the id at the head of the list, NULL if there is
\* none or the flag is not set
flux_msg_route_last(msg) ==
    IF ~msg.route \/ msg.routes = <<>> THEN NULL ELSE Head(msg.routes)

\* kary_parentof replaced by one that names rank 0 as every rank's parent
KaryParentRoot(k, i) ==
    IF i = 0 \/ k <= 0 THEN KARY_NONE ELSE 0

\* kary_parentof (k, i): the parent of rank i in the k-ary tree
kary_parentof(k, i) ==
    IF i = 0 \/ k <= 0 THEN KARY_NONE ELSE (i - 1) \div k

\* kary_childof (k, size, i, j): the j-th child of rank i, j from 0
kary_childof(k, size, i, j) ==
    IF k > 0 /\ j >= 0 /\ j < k /\ k * i + j + 1 < size
    THEN k * i + j + 1
    ELSE KARY_NONE

\* The ancestor of dst, or dst itself, whose parent is src
RECURSIVE kary_gateway(_, _, _)
kary_gateway(k, src, dst) ==
    IF kary_parentof(k, dst) = KARY_NONE THEN KARY_NONE
    ELSE IF kary_parentof(k, dst) = src THEN dst
    ELSE kary_gateway(k, src, kary_parentof(k, dst))

\* kary_child_route (k, size, src, dst): the child of src through which
\* dst is reached, KARY_NONE unless dst is strictly below src
kary_child_route(k, size, src, dst) ==
    IF k > 0 /\ src # dst /\ dst < size
    THEN kary_gateway(k, src, dst)
    ELSE KARY_NONE

\* The periods of the sync callback and the idle thresholds, in seconds.
\* The reactor's clock is read in whole seconds.
sync_min == 1
sync_max == 5
idle_min == 5
idle_max == 30

\* alloc_children: one struct child per rank kary_childof names, calloc'ed
\* (lastseen 0, connected, idle and test_pause false)
RECURSIVE alloc_children(_, _, _, _)
alloc_children(rank, size, k, count) ==
    IF kary_childof(k, size, rank, count) = KARY_NONE THEN <<>>
    ELSE <<[rank |-> kary_childof(k, size, rank, count),
            uuid |-> rank_uuid(kary_childof(k, size, rank, count)),
            lastseen |-> 0, connected |-> FALSE, idle |-> FALSE,
            test_pause |-> FALSE]>>
         \o alloc_children(rank, size, k, count + 1)

\* struct overlay after overlay_create.  now is the reactor's clock
\* (flux_reactor_now) and synced the time f_sync was last reset;
\* test_backlog is NULL (null) or a list of messages
overlay_create ==
    [size |-> 0, rank |-> FLUX_NODEID_ANY, tbon_k |-> 0,
     uuid |-> "", parent_uuid |-> "", children |-> <<>>,
     parent_zsock |-> FALSE, bind_zsock |-> FALSE,
     monitor_requests |-> 0,
     parent_lastsent |-> -1,
     test_backlog |-> [null |-> TRUE, msgs |-> <<>>],
     now |-> 0, synced |-> 0]

\* overlay_set_geometry applied to struct overlay o
set_geometry(o, size, rank, tbon_k) ==
    [o EXCEPT !.size = size, !.rank = rank, !.tbon_k = tbon_k,
              !.children = alloc_children(rank, size, tbon_k, 0),
              !.uuid = rank_uuid(rank),
              !.parent_uuid = IF rank > 0
                              THEN rank_uuid(kary_parentof(tbon_k, rank))
                              ELSE @]

\* child_lookup: the index of the child with this uuid, 0 if there is none
child_lookup(o, uuid) ==
    IF \E n \in 1..Len(o.children) : o.children[n].uuid = uuid
    THEN CHOOSE n \in 1..Len(o.children) : o.children[n].uuid = uuid
    ELSE 0

ChildUuids(o) == {o.children[n].uuid : n \in 1..Len(o.children)}

\* What the sockets answer to the sends of one call: for each child peer
\* "" (sent), "EHOSTUNREACH" (the ROUTER socket has no such peer) or
\* "EAGAIN"; for the parent "" or "EAGAIN".
SendResults(o) ==
    [peer : [ChildUuids(o) -> {"", "EHOSTUNREACH", "EAGAIN"}],
     parent : IF o.parent_zsock THEN {"", "EAGAIN"} ELSE {""}]

\* The outcome of handing msg to one link: the return code and errno, the
\* record of the attempt (errno "" if the socket took the message), and
\* parent_lastsent and test_backlog afterwards
Sent(o, rc, errno, link, to, msg) ==
    [rc |-> rc, errno |-> errno,
     sent |-> <<[link |-> link, to |-> to, msg |-> msg, errno |-> errno]>>,
     parent_lastsent |-> o.parent_lastsent,
     test_backlog |-> o.test_backlog]

\* flux_msg_sendzsock on the DEALER socket to the parent
flux_msg_sendzsock(o, msg, zres) ==
    IF zres.parent = ""
    THEN Sent(o, 0, "", "parent", "", msg)
    ELSE Sent(o, -1, zres.parent, "parent", "", msg)

\* flux_msg_sendzsock_ex on the ROUTER socket (router_mandatory): the id
\* on top of the route stack selects the peer
flux_msg_sendzsock_ex(o, msg, zres) ==
    LET to == flux_msg_route_last(msg) IN
    IF to \notin ChildUuids(o)
    THEN Sent(o, -1, "EHOSTUNREACH", "child", to, msg)
    ELSE IF zres.peer[to] # ""
    THEN Sent(o, -1, zres.peer[to], "child", to, msg)
    ELSE Sent(o, 0, "", "child", to, msg)

\* overlay_sendmsg_parent with test_backlog left as it is: every message
\* goes to the socket
SendmsgParentNoBacklog(o, msg, zres) ==
    LET s == flux_msg_sendzsock(o, msg, zres) IN
    IF ~o.parent_zsock
    THEN Sent(o, -1, "EHOSTUNREACH", "parent", "", msg)
    ELSE IF s.rc = 0 THEN [s EXCEPT !.parent_lastsent = o.now] ELSE s

\* overlay_sendmsg_parent: while test_backlog exists the message is
\* appended to it; otherwise it is sent on the DEALER socket, and
\* parent_lastsent is set if that succeeded
overlay_sendmsg_parent(o, msg, zres) ==
    LET s == flux_msg_sendzsock(o, msg, zres) IN
    IF ~o.parent_zsock
    THEN Sent(o, -1, "EHOSTUNREACH", "parent", "", msg)
    ELSE IF ~o.test_backlog.null
    THEN [rc |-> 0, errno |-> "", sent |-> <<>>,
          parent_lastsent |-> o.parent_lastsent,
          test_backlog |-> [o.test_backlog EXCEPT !.msgs = Append(@, msg)]]
    ELSE IF s.rc = 0 THEN [s EXCEPT !.parent_lastsent = o.now] ELSE s

\* keepalive_encode followed by flux_msg_route_enable
Keepalive(status) ==
    flux_msg_route_enable(Msg("keepalive", FALSE, <<>>, FALSE, 0, status))

\* overlay_keepalive_parent: nothing without a parent socket
overlay_keepalive_parent(o, status, zres) ==
    IF o.parent_zsock
    THEN overlay_sendmsg_parent(o, Keepalive(status), zres)
    ELSE [rc |-> 0, errno |-> "", sent |-> <<>>,
          parent_lastsent |-> o.parent_lastsent,
          test_backlog |-> o.test_backlog]

\* overlay_sendmsg_child
overlay_sendmsg_child(o, msg, zres) ==
    IF ~o.bind_zsock
    THEN Sent(o, -1, "EHOSTUNREACH", "child", "", msg)
    ELSE flux_msg_sendzsock_ex(o, msg, zres)

\* overlay_mcast_child_one: a copy with the route stack enabled and the
\* child's uuid pushed, sent on the child socket
overlay_mcast_child_one(o, msg, child, zres) ==
    LET push == flux_msg_route_push(flux_msg_route_enable(msg), child.uuid)
    IN  IF push.rc < 0
        THEN [rc |-> -1, errno |-> push.errno, sent |-> <<>>,
              parent_lastsent |-> o.parent_lastsent,
              test_backlog |-> o.test_backlog]
        ELSE overlay_sendmsg_child(o, push.msg, zres)

\* One round of the loop of overlay_mcast_child over children n..count
RECURSIVE mcast_from(_, _, _, _)
mcast_from(o, msg, zres, n) ==
    IF n > Len(o.children)
    THEN [children |-> o.children, sent |-> <<>>, disconnects |-> 0]
    ELSE
      LET rest == mcast_from(o, msg, zres, n + 1)
          one == overlay_mcast_child_one(o, msg, o.children[n], zres)
      IN  IF ~o.children[n].connected THEN rest
          ELSE IF one.rc < 0 /\ one.errno = "EHOSTUNREACH"
          THEN [children |-> [rest.children EXCEPT ![n].connected = FALSE],
                sent |-> one.sent \o rest.sent,
                disconnects |-> rest.disconnects + 1]
          ELSE [children |-> rest.children,
                sent |-> one.sent \o rest.sent,
                disconnects |-> rest.disconnects]

\* overlay_mcast_child: a copy for every connected child; a child whose
\* send fails with EHOSTUNREACH is marked disconnected, and
\* overlay_monitor_notify is called once if there was any
overlay_mcast_child(o, msg, zres) ==
    LET r == mcast_from(o, msg, zres, 1) IN
    [children |-> r.children, sent |-> r.sent,
     notify |-> IF r.disconnects > 0 THEN 1 ELSE 0]

\* The result of overlay_sendmsg: return code, errno, the direction
\* taken, the message handed to the link, the sends attempted with their
\* errno, the calls of overlay_monitor_notify, and the children,
\* parent_lastsent and test_backlog afterwards
SendmsgResult(o, where, msg, s) ==
    [rc |-> s.rc, errno |-> s.errno, where |-> where, msg |-> msg,
     sent |-> s.sent, children |-> o.children, notify |-> 0,
     parent_lastsent |-> s.parent_lastsent,
     test_backlog |-> s.test_backlog]

\* The end of the REQUEST and RESPONSE cases of overlay_sendmsg
sendmsg_link(o, msg, where, zres) ==
    IF where = "UPSTREAM"
    THEN SendmsgResult(o, where, msg, overlay_sendmsg_parent(o, msg, zres))
    ELSE SendmsgResult(o, where, msg, overlay_sendmsg_child(o, msg, zres))

\* The failure of overlay_sendmsg before any link was tried
sendmsg_error(o, where, msg, errno) ==
    [rc |-> -1, errno |-> errno, where |-> where, msg |-> msg,
     sent |-> <<>>, children |-> o.children, notify |-> 0,
     parent_lastsent |-> o.parent_lastsent,
     test_backlog |-> o.test_backlog]

\* overlay_sendmsg, case FLUX_MSGTYPE_REQUEST
sendmsg_request(o, msg, where, zres) ==
    LET route == kary_child_route(o.tbon_k, o.size, o.rank, msg.nodeid)
        push1 == flux_msg_route_push(msg, o.uuid)
        push2 == flux_msg_route_push(push1.msg, rank_uuid(route))
    IN  IF where # "ANY" THEN sendmsg_link(o, msg, where, zres)
        ELSE IF msg.upstream /\ msg.nodeid = o.rank
        THEN sendmsg_link(o, msg, "UPSTREAM", zres)
        ELSE IF route = KARY_NONE
        THEN sendmsg_link(o, msg, "UPSTREAM", zres)
        ELSE IF push1.rc < 0
        THEN sendmsg_error(o, where, msg, push1.errno)
        ELSE IF push2.rc < 0
        THEN sendmsg_error(o, where, msg, push2.errno)
        ELSE sendmsg_link(o, push2.msg, "DOWNSTREAM", zres)

\* overlay_sendmsg, case FLUX_MSGTYPE_RESPONSE
sendmsg_response(o, msg, where, zres) ==
    IF where # "ANY" THEN sendmsg_link(o, msg, where, zres)
    ELSE IF /\ o.rank > 0
            /\ msg.route
            /\ flux_msg_route_last(msg) # NULL
            /\ flux_msg_route_last(msg) = o.parent_uuid
    THEN sendmsg_link(o, msg, "UPSTREAM", zres)
    ELSE sendmsg_link(o, msg, "DOWNSTREAM", zres)

\* overlay_sendmsg, case FLUX_MSGTYPE_EVENT
sendmsg_event(o, msg, where, zres) ==
    IF where = "DOWNSTREAM" \/ where = "ANY"
    THEN LET m == overlay_mcast_child(o, msg, zres) IN
         [rc |-> 0, errno |-> "", where |-> where, msg |-> msg,
          sent |-> m.sent, children |-> m.children, notify |-> m.notify,
          parent_lastsent |-> o.parent_lastsent,
          test_backlog |-> o.test_backlog]
    ELSE IF ~msg.route
    THEN SendmsgResult(o, where, flux_msg_route_enable(msg),
             overlay_sendmsg_parent(o, flux_msg_route_enable(msg), zres))
    ELSE SendmsgResult(o, where, msg, overlay_sendmsg_parent(o, msg, zres))

\* overlay_sendmsg applied to struct overlay o
sendmsg(o, msg, where, zres) ==
    CASE msg.type = "request" -> sendmsg_request(o, msg, where, zres)
      [] msg.type = "response" -> sendmsg_response(o, msg, where, zres)
      [] msg.type = "event" -> sendmsg_event(o, msg, where, zres)
      [] OTHER -> sendmsg_error(o, where, msg, "EINVAL")

\* monitor_update: one response {rank, connected, idle, reason} to each
\* of the requests in monitor_requests (copies counts them)
monitor_update(o, child, reason) ==
    [rank |-> child.rank, connected |-> child.connected,
     idle |-> child.idle, reason |-> reason,
     copies |-> o.monitor_requests]

\* The idle scan with the test for child->connected left out
LogIdleFromAll(o, n) ==
    LET RECURSIVE scan(_)
        scan(i) ==
          IF i > Len(o.children) THEN [children |-> o.children,
                                       updates |-> <<>>]
          ELSE
            LET rest == scan(i + 1)
                child == o.children[i]
                idle == o.now - child.lastseen
            IN  IF (idle >= idle_max \/ child.test_pause) /\ ~child.idle
                THEN [children |-> [rest.children EXCEPT ![i].idle = TRUE],
                      updates |-> <<monitor_update(o,
                                       [child EXCEPT !.idle = TRUE],
                                       "idle for")>> \o rest.updates]
                ELSE IF ~(idle >= idle_max \/ child.test_pause)
                        /\ child.idle
                THEN [children |-> [rest.children EXCEPT ![i].idle = FALSE],
                      updates |-> <<monitor_update(o,
                                       [child EXCEPT !.idle = FALSE],
                                       "no longer idle")>> \o rest.updates]
                ELSE rest
    IN  scan(n)

\* The loop of overlay_log_idle_children over children n..count: the
\* children afterwards and the calls of monitor_update in order
log_idle_from(o, n) ==
    LET RECURSIVE scan(_)
        scan(i) ==
          IF i > Len(o.children) THEN [children |-> o.children,
                                       updates |-> <<>>]
          ELSE
            LET rest == scan(i + 1)
                child == o.children[i]
                idle == o.now - child.lastseen
            IN  IF ~child.connected THEN rest
                ELSE IF idle >= idle_max \/ child.test_pause
                THEN IF ~child.idle
                     THEN [children |->
                               [rest.children EXCEPT ![i].idle = TRUE],
                           updates |-> <<monitor_update(o,
                                            [child EXCEPT !.idle = TRUE],
                                            "idle for")>> \o rest.updates]
                     ELSE rest
                ELSE IF child.idle
                     THEN [children |->
                               [rest.children EXCEPT ![i].idle = FALSE],
                           updates |-> <<monitor_update(o,
                                            [child EXCEPT !.idle = FALSE],
                                            "no longer idle")>>
                                       \o rest.updates]
                     ELSE rest
    IN  scan(n)

\* overlay_log_idle_children
overlay_log_idle_children(o) ==
    IF idle_max > 0 THEN log_idle_from(o, 1)
    ELSE [children |-> o.children, updates |-> <<>>]

\* The result of a receive callback: the children afterwards, the calls of
\* overlay_monitor_notify, the message handed to ov->recv_cb with its
\* direction (NoMsg if it was dropped or was a keepalive), and the calls
\* of monitor_update
RecvResult(children, notify, msg, where) ==
    [children |-> children, notify |-> notify, recv |-> msg,
     where |-> where, updates |-> <<>>]

\* child_cb with every message from a child taken as a sign of life,
\* a DISCONNECT keepalive included
ChildRecvAlwaysConnected(o, msg) ==
    LET uuid == flux_msg_route_last(msg)
        n == child_lookup(o, uuid)
        test_pause == (msg.type = "keepalive"
                       /\ msg.status = KEEPALIVE_STATUS_TEST_PAUSE)
        popped == flux_msg_route_delete_last(
                      flux_msg_route_delete_last(msg).msg).msg
        m == IF msg.type = "response" THEN popped ELSE msg
        seen == [o.children EXCEPT ![n].lastseen = o.now,
                                   ![n].connected = TRUE,
                                   ![n].test_pause = test_pause]
        log == IF o.children[n].test_pause # test_pause
               THEN overlay_log_idle_children([o EXCEPT !.children = seen])
               ELSE [children |-> seen, updates |-> <<>>]
    IN  IF ~msg.route \/ n = 0
        THEN RecvResult(o.children, 0, NoMsg, "")
        ELSE [RecvResult(
                 log.children,
                 IF ~o.children[n].connected THEN 1 ELSE 0,
                 IF msg.type # "keepalive" THEN m ELSE NoMsg,
                 IF msg.type # "keepalive" THEN "DOWNSTREAM" ELSE "")
              EXCEPT !.updates = log.updates]

\* child_cb applied to the message read from the ROUTER socket
child_recv(o, msg) ==
    LET uuid == flux_msg_route_last(msg)
        n == child_lookup(o, uuid)
        connected == ~(msg.type = "keepalive"
                       /\ msg.status = KEEPALIVE_STATUS_DISCONNECT)
        test_pause == (msg.type = "keepalive"
                       /\ msg.status = KEEPALIVE_STATUS_TEST_PAUSE)
        popped == flux_msg_route_delete_last(
                      flux_msg_route_delete_last(msg).msg).msg
        m == IF msg.type = "response" THEN popped ELSE msg
        seen == [o.children EXCEPT ![n].lastseen = o.now,
                                   ![n].connected = connected,
                                   ![n].test_pause = test_pause]
        log == IF o.children[n].test_pause # test_pause
               THEN overlay_log_idle_children([o EXCEPT !.children = seen])
               ELSE [children |-> seen, updates |-> <<>>]
    IN  IF ~msg.route \/ n = 0
        THEN RecvResult(o.children, 0, NoMsg, "")
        ELSE [RecvResult(
                 log.children,
                 IF o.children[n].connected # connected THEN 1 ELSE 0,
                 IF msg.type # "keepalive" THEN m ELSE NoMsg,
                 IF msg.type # "keepalive" THEN "DOWNSTREAM" ELSE "")
              EXCEPT !.updates = log.updates]

\* parent_cb applied to the message read from the DEALER socket
parent_recv(o, msg) ==
    IF msg.type = "event"
    THEN RecvResult(o.children, 0, flux_msg_route_clear(msg), "UPSTREAM")
    ELSE RecvResult(o.children, 0, msg, "UPSTREAM")

\* The result of sync_cb or overlay_pause_cb: the sends attempted on the
\* parent socket, the calls of monitor_update, and the children,
\* parent_lastsent and test_backlog afterwards
TimerResult(o, s, log) ==
    [sent |-> s.sent, updates |-> log.updates, children |-> log.children,
     parent_lastsent |-> s.parent_lastsent,
     test_backlog |-> s.test_backlog]

\* A call that sends nothing
NotSent(o) ==
    [rc |-> 0, errno |-> "", sent |-> <<>>,
     parent_lastsent |-> o.parent_lastsent,
     test_backlog |-> o.test_backlog]

\* sync_cb with the keepalive sent at every tick
SyncAlwaysKeepalive(o, zres) ==
    TimerResult(o,
        overlay_keepalive_parent(o, KEEPALIVE_STATUS_NORMAL, zres),
        overlay_log_idle_children(o))

\* sync_cb applied to struct overlay o: a NORMAL keepalive if nothing was
\* sent to the parent for more than idle_min, then the idle scan
sync(o, zres) ==
    TimerResult(o,
        IF o.now - o.parent_lastsent > idle_min
        THEN overlay_keepalive_parent(o, KEEPALIVE_STATUS_NORMAL, zres)
        ELSE NotSent(o),
        overlay_log_idle_children(o))

\* The loop of overlay_pause_cb over the list taken from test_backlog:
\* flux_msglist_pop takes the oldest message, overlay_sendmsg_parent sends
\* it, and a failure is logged
RECURSIVE pause_drain(_, _, _)
pause_drain(o, l, zres) ==
    IF l = <<>> THEN NotSent(o)
    ELSE LET s == overlay_sendmsg_parent(o, Head(l), zres)
             rest == pause_drain(
                         [o EXCEPT !.parent_lastsent = s.parent_lastsent,
                                   !.test_backlog = s.test_backlog],
                         Tail(l), zres)
         IN  [rest EXCEPT !.sent = s.sent \o @]

\* overlay_pause_cb with the backlog dropped on leaving the pause
PauseDropBacklog(o, zres) ==
    IF ~o.test_backlog.null
    THEN TimerResult(o,
             [NotSent(o) EXCEPT !.test_backlog = [null |-> TRUE,
                                                  msgs |-> <<>>]],
             [children |-> o.children, updates |-> <<>>])
    ELSE TimerResult(o,
             [overlay_keepalive_parent(o, KEEPALIVE_STATUS_TEST_PAUSE, zres)
              EXCEPT !.test_backlog = [null |-> FALSE, msgs |-> <<>>]],
             [children |-> o.children, updates |-> <<>>])

\* overlay_pause_cb applied to struct overlay o: the toggle
pause(o, zres) ==
    IF ~o.test_backlog.null
    THEN TimerResult(o,
             pause_drain([o EXCEPT !.test_backlog = [null |-> TRUE,
                                                     msgs |-> <<>>]],
                         o.test_backlog.msgs, zres),
             [children |-> o.children, updates |-> <<>>])
    ELSE TimerResult(o,
             [overlay_keepalive_parent(o, KEEPALIVE_STATUS_TEST_PAUSE, zres)
              EXCEPT !.test_backlog = [null |-> FALSE, msgs |-> <<>>]],
             [children |-> o.children, updates |-> <<>>])

\* ---- the overlay of one broker as a state machine ----

OVERLAY_WHERE == {"ANY", "UPSTREAM", "DOWNSTREAM"}

\* Geometries given to overlay_set_geometry
Geometries ==
    {g \in [size : 1..OvMaxSize, rank : 0..(OvMaxSize - 1), k : 1..OvMaxK] :
        g.rank < g.size}

\* Requests as flux_request_encode builds them (route stack enabled),
\* carrying the route of the local client that sent them, addressed to a
\* rank of the largest instance or to rank OvMaxSize, which no instance has
Requests ==
    {Msg("request", TRUE, <<"c">>, upstream, nodeid, 0) :
        upstream \in BOOLEAN, nodeid \in 0..OvMaxSize}

\* Responses: without a route stack, with an empty one, or with one id
Responses ==
    {Msg("response", FALSE, <<>>, FALSE, 0, 0),
     Msg("response", TRUE, <<>>, FALSE, 0, 0)}
    \cup {Msg("response", TRUE, <<id>>, FALSE, 0, 0) : id \in RouteIds}

\* Events: without a route stack (as published or as flux_msg_route_clear
\* left them) or with the route of a local client
Events ==
    {Msg("event", FALSE, <<>>, FALSE, 0, 0),
     Msg("event", TRUE, <<>>, FALSE, 0, 0),
     Msg("event", TRUE, <<"c">>, FALSE, 0, 0)}

\* Messages handed to overlay_sendmsg
SendMsgs ==
    Requests \cup Responses \cup Events
    \cup {Msg("keepalive", FALSE, <<>>, FALSE, 0, KEEPALIVE_STATUS_NORMAL)}

\* Messages read from the ROUTER socket: the socket has pushed the uuid of
\* the sending peer on the route stack the peer sent.  A response that
\* this broker routed down comes back with this broker's uuid beneath.
\* (The keepalive of a child entering its test pause is among PeerMsgs.)
ChildMsgs(o) ==
    {Msg("keepalive", TRUE, <<peer>>, FALSE, 0, status) :
        peer \in RouteIds,
        status \in {KEEPALIVE_STATUS_NORMAL, KEEPALIVE_STATUS_DISCONNECT}}
    \cup {Msg(type, TRUE, <<peer>> \o rest, FALSE, 0, 0) :
            type \in {"request", "event"}, peer \in RouteIds,
            rest \in {<<>>, <<"c">>}}
    \cup {Msg("response", TRUE, <<peer>> \o rest, FALSE, 0, 0) :
            peer \in RouteIds,
            rest \in {<<>>, <<o.uuid>>, <<o.uuid, "c">>}}

\* Messages read from the DEALER socket
ParentMsgs ==
    {Msg(type, r[1], r[2], FALSE, 0, 0) :
        type \in {"request", "response", "event"},
        r \in {<<FALSE, <<>>>>, <<TRUE, <<>>>>, <<TRUE, <<"c">>>>}}

NoOvOut ==
    [op |-> "none", arg |-> "", in |-> NoMsg, rc |-> 0, errno |-> "",
     where |-> "", msg |-> NoMsg, sent |-> <<>>, recv |-> NoMsg,
     notify |-> 0, updates |-> <<>>, snapshot |-> <<>>]

\* overlay_set_geometry, called once while the broker bootstraps
overlay_set_geometry(size, rank, tbon_k) ==
    /\ ov.rank = FLUX_NODEID_ANY
    /\ ov' = set_geometry(ov, size, rank, tbon_k)
    /\ ov_out' = [NoOvOut EXCEPT !.op = "set_geometry"]

\* overlay_connect: a broker other than rank 0 creates the DEALER socket
\* to its parent
overlay_connect ==
    IF ov.rank > 0
    THEN IF ov.rank = FLUX_NODEID_ANY
         THEN /\ ov_out' = [NoOvOut EXCEPT !.op = "connect", !.rc = -1,
                                           !.errno = "EINVAL"]
              /\ UNCHANGED ov
         ELSE /\ ov' = [ov EXCEPT !.parent_zsock = TRUE]
              /\ ov_out' = [NoOvOut EXCEPT !.op = "connect"]
    ELSE /\ ov_out' = [NoOvOut EXCEPT !.op = "connect"]
         /\ UNCHANGED ov

\* overlay_bind: creates the ROUTER socket the children connect to
overlay_bind ==
    IF ov.rank = FLUX_NODEID_ANY \/ ov.bind_zsock
    THEN /\ ov_out' = [NoOvOut EXCEPT !.op = "bind", !.rc = -1,
                                      !.errno = "EINVAL"]
         /\ UNCHANGED ov
    ELSE /\ ov' = [ov EXCEPT !.bind_zsock = TRUE]
         /\ ov_out' = [NoOvOut EXCEPT !.op = "bind"]

\* overlay_sendmsg
overlay_sendmsg(msg, where, zres) ==
    LET r == sendmsg(ov, msg, where, zres) IN
    /\ ov' = [ov EXCEPT !.children = r.children,
                         !.parent_lastsent = r.parent_lastsent,
                         !.test_backlog = r.test_backlog]
    /\ ov_out' = [NoOvOut EXCEPT !.op = "sendmsg", !.arg = where,
                                 !.in = msg, !.rc = r.rc,
                                 !.errno = r.errno, !.where = r.where,
                                 !.msg = r.msg, !.sent = r.sent,
                                 !.notify = r.notify]

\* child_cb: the ROUTER socket is readable
child_cb(msg) ==
    LET r == child_recv(ov, msg) IN
    /\ ov.bind_zsock
    /\ ov' = [ov EXCEPT !.children = r.children]
    /\ ov_out' = [NoOvOut EXCEPT !.op = "child_cb", !.in = msg,
                                 !.where = r.where, !.recv = r.recv,
                                 !.notify = r.notify,
                                 !.updates = r.updates]

\* parent_cb: the DEALER socket is readable
parent_cb(msg) ==
    LET r == parent_recv(ov, msg) IN
    /\ ov.parent_zsock
    /\ ov_out' = [NoOvOut EXCEPT !.op = "parent_cb", !.in = msg,
                                 !.where = r.where, !.recv = r.recv,
                                 !.notify = r.notify]
    /\ UNCHANGED ov

\* The first response of overlay.monitor: {rank, connected, idle} of
\* every child
monitor_snapshot(o) ==
    [n \in 1..Len(o.children) |->
        [rank |-> o.children[n].rank,
         connected |-> o.children[n].connected,
         idle |-> o.children[n].idle]]

\* monitor_cb: an overlay.monitor request; a streaming one is kept
monitor_cb(streaming) ==
    IF Len(ov.children) = 0
    THEN /\ ov_out' = [NoOvOut EXCEPT !.op = "monitor", !.rc = -1,
                                      !.errno = "ENODATA"]
         /\ UNCHANGED ov
    ELSE /\ ov' = [ov EXCEPT !.monitor_requests =
                                 IF streaming THEN @ + 1 ELSE @]
         /\ ov_out' = [NoOvOut EXCEPT !.op = "monitor",
                                      !.snapshot = monitor_snapshot(ov)]

\* disconnect_cb: the client of one streaming overlay.monitor request
\* has gone and its request is dropped from monitor_requests
disconnect_cb ==
    /\ ov.monitor_requests > 0
    /\ ov' = [ov EXCEPT !.monitor_requests = @ - 1]
    /\ ov_out' = [NoOvOut EXCEPT !.op = "disconnect"]

\* The reactor's clock moves on by a second.  f_sync is fulfilled no
\* later than sync_max after it was reset, so the clock does not pass
\* that time before sync_cb has run.
Tick ==
    /\ ov.now - ov.synced < sync_max
    /\ ov' = [ov EXCEPT !.now = @ + 1]
    /\ ov_out' = [NoOvOut EXCEPT !.op = "tick"]

\* sync_cb: f_sync is fulfilled, no sooner than sync_min after it was
\* reset; flux_future_reset rearms it
sync_cb(zres) ==
    LET r == sync(ov, zres) IN
    /\ ov.now - ov.synced >= sync_min
    /\ ov' = [ov EXCEPT !.children = r.children,
                         !.parent_lastsent = r.parent_lastsent,
                         !.test_backlog = r.test_backlog,
                         !.synced = ov.now]
    /\ ov_out' = [NoOvOut EXCEPT !.op = "sync", !.sent = r.sent,
                                 !.updates = r.updates]

\* overlay_pause_cb: an overlay.pause request
overlay_pause_cb(zres) ==
    LET r == pause(ov, zres) IN
    /\ ov' = [ov EXCEPT !.parent_lastsent = r.parent_lastsent,
                         !.test_backlog = r.test_backlog]
    /\ ov_out' = [NoOvOut EXCEPT !.op = "pause", !.sent = r.sent]

OvInit == ov = overlay_create /\ ov_out = NoOvOut

OvBounded == ov'.monitor_requests <= MaxMonitors

\* The socket results that can make a difference to overlay_sendmsg of
\* msg: every result for the links the call hands a message to, and
\* success for the links it does not touch.  No failure makes the call
\* try a link it would not have tried otherwise.
TriedResults(o, msg, where) ==
    LET dry == sendmsg(o, msg, where,
                       [peer |-> [u \in ChildUuids(o) |-> ""],
                        parent |-> ""])
        tried(link, to) ==
            \E i \in 1..Len(dry.sent) :
                dry.sent[i].link = link /\ dry.sent[i].to = to
    IN  {zres \in SendResults(o) :
            /\ \A u \in ChildUuids(o) :
                  ~tried("child", u) => zres.peer[u] = ""
            /\ ~tried("parent", "") => zres.parent = ""}

OvNext ==
    \/ \E g \in Geometries :
         overlay_set_geometry(g.size, g.rank, g.k)
         /\ UNCHANGED <<hkVars, spVars, apVars, hopVars, msgVars, cwVars, sjVars>>
    \/ overlay_connect /\ UNCHANGED <<hkVars, spVars, apVars, hopVars, msgVars, cwVars, sjVars>>
    \/ overlay_bind /\ UNCHANGED <<hkVars, spVars, apVars, hopVars, msgVars, cwVars, sjVars>>
    \/ \E msg \in SendMsgs, where \in OVERLAY_WHERE :
         \E zres \in TriedResults(ov, msg, where) :
            overlay_sendmsg(msg, where, zres)
            /\ UNCHANGED <<hkVars, spVars, apVars, hopVars, msgVars, cwVars, sjVars>>
    \/ \E msg \in ChildMsgs(ov) :
         child_cb(msg) /\ UNCHANGED <<hkVars, spVars, apVars, hopVars, msgVars, cwVars, sjVars>>
    \/ \E msg \in ParentMsgs :
         parent_cb(msg) /\ UNCHANGED <<hkVars, spVars, apVars, hopVars, msgVars, cwVars, sjVars>>
    \/ \E streaming \in BOOLEAN :
         monitor_cb(streaming) /\ OvBounded
         /\ UNCHANGED <<hkVars, spVars, apVars, hopVars, msgVars, cwVars, sjVars>>

\* ---- two brokers joined by one overlay hop ----

\* The ROUTER socket read by child_cb (flux_msg_recvzsock on bind_zsock):
\* the identity of the sending DEALER socket, which overlay_connect set to
\* the child's uuid, arrives on top of the route stack the child sent
flux_msg_recvzsock(peer, msg) == [msg EXCEPT !.routes = <<peer>> \o @]

\* The ROUTER socket written by overlay_sendmsg_child: the id on top of
\* the route stack selected the peer and is not part of what the peer reads
router_pop(msg) == [msg EXCEPT !.routes = Tail(@)]

\* flux_response_derive: the response to a request carries its route stack
flux_response_derive(request) ==
    [request EXCEPT !.type = "response", !.upstream = FALSE, !.nodeid = 0]

\* The broker at this rank of the instance hop describes, after
\* overlay_set_geometry, overlay_bind if it has children and overlay_connect
HopBroker(rank) ==
    LET o == set_geometry(overlay_create, hop.size, rank, hop.k) IN
    [o EXCEPT !.bind_zsock = (Len(o.children) > 0),
              !.parent_zsock = (rank > 0)]

HopChild == HopBroker(hop.rank)

HopParent == HopBroker(kary_parentof(hop.k, hop.rank))

\* Every socket takes what it is given
AllSent(o) == [peer |-> [u \in ChildUuids(o) |-> ""], parent |-> ""]

\* Requests a broker of an instance of this size sends
HopRequests(size) ==
    {Msg("request", TRUE, routes, upstream, nodeid, 0) :
        routes \in {<<>>, <<"c">>, <<"c", "c">>}, upstream \in BOOLEAN,
        nodeid \in 0..(size - 1)}

HopIdle ==
    [stage |-> "idle", size |-> 0, k |-> 0, rank |-> 0,
     orig |-> NoMsg, msg |-> NoMsg, where |-> ""]

\* An instance and one of its brokers other than rank 0 are chosen: the
\* hop is the one between that broker and its parent
HopStart(g, stage) ==
    /\ hop.stage = "idle"
    /\ g.rank > 0
    /\ hop' = [HopIdle EXCEPT !.stage = stage, !.size = g.size,
                              !.k = g.k, !.rank = g.rank]

\* (a) the child hands a request to overlay_sendmsg, which sends it to the
\* parent
ChildSendRequest(request, where) ==
    LET r == sendmsg(HopChild, request, where, AllSent(HopChild)) IN
    /\ hop.stage = "a0"
    /\ r.rc = 0 /\ r.where = "UPSTREAM"
    /\ hop' = [hop EXCEPT !.stage = "a1", !.orig = request,
                          !.msg = r.sent[1].msg, !.where = r.where]

\* (a) the parent's child_cb reads the request and hands it to recv_cb
ParentRecvRequest ==
    LET r == child_recv(HopParent,
                        flux_msg_recvzsock(HopChild.uuid, hop.msg)) IN
    /\ hop.stage = "a1"
    /\ hop' = [hop EXCEPT !.stage = "a2", !.msg = r.recv,
                          !.where = r.where]

\* (a) the parent sends the response to the request it was handed
ParentSendResponse(where) ==
    LET r == sendmsg(HopParent, flux_response_derive(hop.msg), where,
                     AllSent(HopParent)) IN
    /\ hop.stage = "a2"
    /\ r.rc = 0 /\ r.where = "DOWNSTREAM"
    /\ r.sent[1].to = HopChild.uuid
    /\ hop' = [hop EXCEPT !.stage = "a3",
                          !.msg = router_pop(r.sent[1].msg),
                          !.where = r.where]

\* (a) the child's parent_cb reads the response and hands it to recv_cb
ChildRecvResponse ==
    LET r == parent_recv(HopChild, hop.msg) IN
    /\ hop.stage = "a3"
    /\ hop' = [hop EXCEPT !.stage = "a4", !.msg = r.recv,
                          !.where = r.where]

\* (b) the parent hands a request for a rank at or below the child to
\* overlay_sendmsg with where = ANY
ParentSendRequest(request) ==
    LET r == sendmsg(HopParent, request, "ANY", AllSent(HopParent)) IN
    /\ hop.stage = "b0"
    /\ r.rc = 0 /\ r.where = "DOWNSTREAM"
    /\ r.sent[1].to = HopChild.uuid
    /\ hop' = [hop EXCEPT !.stage = "b1", !.orig = request,
                          !.msg = router_pop(r.sent[1].msg),
                          !.where = r.where]

\* (b) the child's parent_cb reads the request and hands it to recv_cb
ChildRecvRequest ==
    LET r == parent_recv(HopChild, hop.msg) IN
    /\ hop.stage = "b1"
    /\ hop' = [hop EXCEPT !.stage = "b2", !.msg = r.recv,
                          !.where = r.where]

\* (b) the child hands the response to overlay_sendmsg with where = ANY
ChildSendResponse ==
    LET r == sendmsg(HopChild, flux_response_derive(hop.msg), "ANY",
                     AllSent(HopChild)) IN
    /\ hop.stage = "b2"
    /\ r.rc = 0
    /\ hop' = [hop EXCEPT !.stage = "b3", !.msg = r.sent[1].msg,
                          !.where = r.where]

\* (b) the parent's child_cb reads the response and hands it to recv_cb
ParentRecvResponse ==
    LET r == child_recv(HopParent,
                        flux_msg_recvzsock(HopChild.uuid, hop.msg)) IN
    /\ hop.stage = "b3"
    /\ hop.where = "UPSTREAM"
    /\ hop' = [hop EXCEPT !.stage = "b4", !.msg = r.recv,
                          !.where = r.where]

HopInit == hop = HopIdle

HopNext ==
    \/ \E g \in Geometries, stage \in {"a0", "b0"} :
         HopStart(g, stage) /\ UNCHANGED <<hkVars, spVars, apVars, ovVars, msgVars, cwVars, sjVars>>
    \/ \E request \in HopRequests(hop.size), where \in {"ANY", "UPSTREAM"} :
         ChildSendRequest(request, where)
         /\ UNCHANGED <<hkVars, spVars, apVars, ovVars, msgVars, cwVars, sjVars>>
    \/ ParentRecvRequest /\ UNCHANGED <<hkVars, spVars, apVars, ovVars, msgVars, cwVars, sjVars>>
    \/ \E where \in {"ANY", "DOWNSTREAM"} :
         ParentSendResponse(where)
         /\ UNCHANGED <<hkVars, spVars, apVars, ovVars, msgVars, cwVars, sjVars>>
    \/ ChildRecvResponse /\ UNCHANGED <<hkVars, spVars, apVars, ovVars, msgVars, cwVars, sjVars>>
    \/ \E request \in HopRequests(hop.size) :
         ParentSendRequest(request)
         /\ UNCHANGED <<hkVars, spVars, apVars, ovVars, msgVars, cwVars, sjVars>>
    \/ ChildRecvRequest /\ UNCHANGED <<hkVars, spVars, apVars, ovVars, msgVars, cwVars, sjVars>>
    \/ ChildSendResponse /\ UNCHANGED <<hkVars, spVars, apVars, ovVars, msgVars, cwVars, sjVars>>
    \/ ParentRecvResponse /\ UNCHANGED <<hkVars, spVars, apVars, ovVars, msgVars, cwVars, sjVars>>


\* ---- a broker watching its child over time ----

\* struct overlay of the broker at this rank once the broker has
\* bootstrapped: overlay_set_geometry, overlay_bind if it has children and
\* overlay_connect if it has a parent
Bootstrapped(size, rank, k) ==
    LET o == set_geometry(overlay_create, size, rank, k) IN
    [o EXCEPT !.bind_zsock = (Len(o.children) > 0),
              !.parent_zsock = (rank > 0)]

\* Messages read from the ROUTER socket of rank 0 of a two-broker
\* instance: keepalives and a request of its child, rank 1, and a request
\* of a peer that is not its child
PeerMsgs ==
    {Msg("keepalive", TRUE, <<rank_uuid(1)>>, FALSE, 0, status) :
        status \in {KEEPALIVE_STATUS_NORMAL, KEEPALIVE_STATUS_DISCONNECT,
                    KEEPALIVE_STATUS_TEST_PAUSE}}
    \cup {Msg("request", TRUE, <<peer, "c">>, FALSE, 0, 0) :
            peer \in {rank_uuid(1), "c"}}

\* Messages that broker sends: an event
PeerSendMsgs == {Msg("event", FALSE, <<>>, FALSE, 0, 0)}

PeerBounded == ov'.monitor_requests <= MaxPeerMonitors

PeerInit == ov = Bootstrapped(2, 0, 1) /\ ov_out = NoOvOut

PeerNext ==
    \/ Tick /\ ov.now < MaxNow
       /\ UNCHANGED <<hkVars, spVars, apVars, hopVars, msgVars, cwVars, sjVars>>
    \/ \E zres \in SendResults(ov) :
         sync_cb(zres) /\ UNCHANGED <<hkVars, spVars, apVars, hopVars, msgVars, cwVars, sjVars>>
    \/ \E msg \in PeerMsgs :
         child_cb(msg) /\ UNCHANGED <<hkVars, spVars, apVars, hopVars, msgVars, cwVars, sjVars>>
    \/ \E msg \in PeerSendMsgs, zres \in SendResults(ov) :
         overlay_sendmsg(msg, "ANY", zres)
         /\ UNCHANGED <<hkVars, spVars, apVars, hopVars, msgVars, cwVars, sjVars>>
    \/ monitor_cb(TRUE) /\ PeerBounded
       /\ UNCHANGED <<hkVars, spVars, apVars, hopVars, msgVars, cwVars, sjVars>>
    \/ disconnect_cb /\ UNCHANGED <<hkVars, spVars, apVars, hopVars, msgVars, cwVars, sjVars>>

\* ---- a broker pausing its sends to the parent ----

\* Requests that rank 1 of a two-broker instance sends to its parent
PauseSendMsgs ==
    {Msg("request", TRUE, <<"c">>, FALSE, nodeid, 0) : nodeid \in {0, 2}}

PauseInit == ov = Bootstrapped(2, 1, 1) /\ ov_out = NoOvOut

PauseBounded == Len(ov'.test_backlog.msgs) <= MaxBacklog

PauseNext ==
    \/ Tick /\ ov.now < MaxPauseNow
       /\ UNCHANGED <<hkVars, spVars, apVars, hopVars, msgVars, cwVars, sjVars>>
    \/ \E zres \in SendResults(ov) :
         sync_cb(zres) /\ PauseBounded
         /\ UNCHANGED <<hkVars, spVars, apVars, hopVars, msgVars, cwVars, sjVars>>
    \/ \E msg \in PauseSendMsgs, zres \in SendResults(ov) :
         overlay_sendmsg(msg, "UPSTREAM", zres) /\ PauseBounded
         /\ UNCHANGED <<hkVars, spVars, apVars, hopVars, msgVars, cwVars, sjVars>>
    \/ \E zres \in SendResults(ov) :
         overlay_pause_cb(zres)
         /\ UNCHANGED <<hkVars, spVars, apVars, hopVars, msgVars, cwVars, sjVars>>

(***************************************************************************)
(* Part F: flux_msg_t (message.c, message_private.c)                       *)
(***************************************************************************)

\* The flag bits of the proto frame, with the values the wire format
\* fixes (message.h).  A message keeps FLUX_MSGFLAG_ROUTE in its field
\* route and the set of its other flag bits in its field flags.
FLUX_MSGFLAG_TOPIC == 1

FLUX_MSGFLAG_PAYLOAD == 2

FLUX_MSGFLAG_ROUTE == 4

FLUX_MSGFLAG_UPSTREAM == 8

FLUX_MSGFLAG_PRIVATE == 16

FLUX_MSGFLAG_STREAMING == 32

FLUX_MSGFLAG_NORESPONSE == 64

\* The bits of a uint8_t
FlagBits == {1, 2, 4, 8, 16, 32, 64, 128}

\* The type codes of the proto frame
msgtype_code(type) ==
    CASE type = "request" -> 1
      [] type = "response" -> 2
      [] type = "event" -> 4
      [] type = "keepalive" -> 8
      [] OTHER -> 15

\* FLUX_MSGTYPE_ANY: the type of a message that has none yet
FLUX_MSGTYPE_ANY == "any"

MsgTypes == {"request", "response", "event", "keepalive"}

\* The largest value a word of the model holds; it stands for (uint32_t)-1.
FLUX_USERID_UNKNOWN == 2147483647

FLUX_ROLE_NONE == 0

FLUX_MATCHTAG_NONE == 0

\* The flags byte of a message as a set of bits
msg_flags(msg) ==
    msg.flags \cup (IF msg.route THEN {FLUX_MSGFLAG_ROUTE} ELSE {})

\* msg_setup_type: the type-specific words of a fresh message
msg_setup_type(msg) ==
    CASE msg.type = "request" ->
           [msg EXCEPT !.aux1 = FLUX_NODEID_ANY, !.aux2 = FLUX_MATCHTAG_NONE]
      [] msg.type = "response" -> [msg EXCEPT !.aux1 = 0]
      [] msg.type = "event" -> [msg EXCEPT !.aux1 = 0, !.aux2 = 0]
      [] msg.type = "keepalive" -> [msg EXCEPT !.aux1 = 0, !.aux2 = 0]
      [] OTHER -> msg

\* The calloc'ed struct flux_msg.  topic is <<>> for NULL and <<s>> for
\* the string s; payload is <<>> for NULL, else the bytes of the buffer as
\* a sequence of segments.
ZeroMsg(type) ==
    [type |-> type, route |-> FALSE, routes |-> <<>>, flags |-> {},
     topic |-> <<>>, payload |-> <<>>, payload_size |-> 0,
     userid |-> 0, rolemask |-> 0, aux1 |-> 0, aux2 |-> 0]

\* flux_msg_create (type)
flux_msg_create(type) ==
    [(IF type = FLUX_MSGTYPE_ANY THEN ZeroMsg(type)
      ELSE msg_setup_type(ZeroMsg(type)))
     EXCEPT !.userid = FLUX_USERID_UNKNOWN, !.rolemask = FLUX_ROLE_NONE]

\* What a call on a message returns and leaves behind
MsgResult(rc, errno, msg) == [rc |-> rc, errno |-> errno, msg |-> msg]

\* flux_msg_set_flags replaced by one without the STREAMING/NORESPONSE test
SetFlagsNoExclusion(msg, fl) ==
    IF fl \ {1, 2, 4, 8, 16, 32, 64} # {}
    THEN MsgResult(-1, "EINVAL", msg)
    ELSE MsgResult(0, "", [msg EXCEPT !.flags = fl \ {FLUX_MSGFLAG_ROUTE},
                                      !.route = FLUX_MSGFLAG_ROUTE \in fl])

\* flux_msg_set_flags (msg, fl): EINVAL for a bit outside the valid flags
\* and for STREAMING together with NORESPONSE, else msg->flags = fl
flux_msg_set_flags(msg, fl) ==
    IF \/ fl \ {FLUX_MSGFLAG_TOPIC, FLUX_MSGFLAG_PAYLOAD, FLUX_MSGFLAG_ROUTE,
                FLUX_MSGFLAG_UPSTREAM, FLUX_MSGFLAG_PRIVATE,
                FLUX_MSGFLAG_STREAMING, FLUX_MSGFLAG_NORESPONSE} # {}
       \/ (FLUX_MSGFLAG_STREAMING \in fl /\ FLUX_MSGFLAG_NORESPONSE \in fl)
    THEN MsgResult(-1, "EINVAL", msg)
    ELSE MsgResult(0, "", [msg EXCEPT !.flags = fl \ {FLUX_MSGFLAG_ROUTE},
                                      !.route = FLUX_MSGFLAG_ROUTE \in fl])

\* flux_msg_set_private
flux_msg_set_private(msg) ==
    flux_msg_set_flags(msg, msg_flags(msg) \cup {FLUX_MSGFLAG_PRIVATE})

\* flux_msg_set_streaming replaced by one that keeps NORESPONSE
SetStreamingKeep(msg) ==
    flux_msg_set_flags(msg, msg_flags(msg) \cup {FLUX_MSGFLAG_STREAMING})

\* flux_msg_set_streaming: drop NORESPONSE, add STREAMING
flux_msg_set_streaming(msg) ==
    flux_msg_set_flags(msg, (msg_flags(msg) \ {FLUX_MSGFLAG_NORESPONSE})
                            \cup {FLUX_MSGFLAG_STREAMING})

\* flux_msg_set_noresponse: drop STREAMING, add NORESPONSE
flux_msg_set_noresponse(msg) ==
    flux_msg_set_flags(msg, (msg_flags(msg) \ {FLUX_MSGFLAG_STREAMING})
                            \cup {FLUX_MSGFLAG_NORESPONSE})

\* flux_msg_set_userid
flux_msg_set_userid(msg, userid) ==
    MsgResult(0, "", [msg EXCEPT !.userid = userid])

\* flux_msg_set_rolemask
flux_msg_set_rolemask(msg, rolemask) ==
    MsgResult(0, "", [msg EXCEPT !.rolemask = rolemask])

\* flux_msg_set_cred: the rolemask, then the userid
flux_msg_set_cred(msg, userid, rolemask) ==
    flux_msg_set_userid(flux_msg_set_rolemask(msg, rolemask).msg, userid)

\* flux_msg_set_nodeid: EINVAL for FLUX_NODEID_UPSTREAM and for a message
\* that is not a request
FLUX_NODEID_UPSTREAM == 2147483646

flux_msg_set_nodeid(msg, nodeid) ==
    IF nodeid = FLUX_NODEID_UPSTREAM \/ msg.type # "request"
    THEN MsgResult(-1, "EINVAL", msg)
    ELSE MsgResult(0, "", [msg EXCEPT !.aux1 = nodeid])

\* flux_msg_set_topic (msg, topic), topic <<>> for NULL: replace, add or
\* delete the topic string and keep FLUX_MSGFLAG_TOPIC in step
flux_msg_set_topic(msg, topic) ==
    IF FLUX_MSGFLAG_TOPIC \in msg.flags /\ topic # <<>>
    THEN MsgResult(0, "", [msg EXCEPT !.topic = topic])
    ELSE IF FLUX_MSGFLAG_TOPIC \notin msg.flags /\ topic # <<>>
    THEN flux_msg_set_flags([msg EXCEPT !.topic = topic],
                            msg_flags(msg) \cup {FLUX_MSGFLAG_TOPIC})
    ELSE IF FLUX_MSGFLAG_TOPIC \in msg.flags /\ topic = <<>>
    THEN flux_msg_set_flags([msg EXCEPT !.topic = <<>>],
                            msg_flags(msg) \ {FLUX_MSGFLAG_TOPIC})
    ELSE MsgResult(0, "", msg)

\* len bytes of the buffer or string src, from its offset off
Seg(src, off, len) == [src |-> src, off |-> off, len |-> len]

\* The bytes of a sequence of segments
RECURSIVE SegBytes(_)
SegBytes(segs) ==
    IF segs = <<>> THEN 0 ELSE Head(segs).len + SegBytes(Tail(segs))

\* What is left of a sequence of segments after its first n bytes
RECURSIVE SegDrop(_, _)
SegDrop(segs, n) ==
    IF segs = <<>> \/ n = 0 THEN segs
    ELSE IF Head(segs).len <= n THEN SegDrop(Tail(segs), n - Head(segs).len)
    ELSE <<Seg(Head(segs).src, Head(segs).off + n, Head(segs).len - n)>>
         \o Tail(segs)

\* The first n bytes of a sequence of segments
RECURSIVE SegTake(_, _)
SegTake(segs, n) ==
    IF segs = <<>> \/ n = 0 THEN <<>>
    ELSE IF Head(segs).len <= n
    THEN <<Head(segs)>> \o SegTake(Tail(segs), n - Head(segs).len)
    ELSE <<Seg(Head(segs).src, Head(segs).off, n)>>

\* memcpy (msg->payload, buf, size): the first size bytes of the block are
\* overwritten, the rest of the block keeps what it held
memcpy(block, buf, size) == <<Seg(buf, 0, size)>> \o SegDrop(block, size)

\* flux_msg_set_payload replaced by one that always resizes the block
SetPayloadResize(msg, buf, size) ==
    IF FLUX_MSGFLAG_PAYLOAD \notin msg.flags /\ (buf = NULL \/ size = 0)
    THEN MsgResult(0, "", msg)
    ELSE IF buf # NULL /\ size > 0
    THEN flux_msg_set_flags(
             [msg EXCEPT !.payload = <<Seg(buf, 0, size)>>,
                         !.payload_size = size],
             msg_flags(msg) \cup {FLUX_MSGFLAG_PAYLOAD})
    ELSE flux_msg_set_flags(
             [msg EXCEPT !.payload = <<>>, !.payload_size = 0],
             msg_flags(msg) \ {FLUX_MSGFLAG_PAYLOAD})

\* flux_msg_set_payload (msg, buf, size), buf NULL or the name of a buffer
\* of the caller that holds at least size bytes and does not overlap the
\* message's own.  Case 1 replaces the payload, and grows the block and
\* payload_size only if size is larger; case 2 adds one; case 3 frees it.
flux_msg_set_payload(msg, buf, size) ==
    IF FLUX_MSGFLAG_PAYLOAD \notin msg.flags /\ (buf = NULL \/ size = 0)
    THEN MsgResult(0, "", msg)
    ELSE IF FLUX_MSGFLAG_PAYLOAD \in msg.flags /\ buf # NULL /\ size > 0
    THEN flux_msg_set_flags(
             [msg EXCEPT !.payload = memcpy(@, buf, size),
                         !.payload_size = IF size > @ THEN size ELSE @],
             msg_flags(msg))
    ELSE IF FLUX_MSGFLAG_PAYLOAD \notin msg.flags
    THEN flux_msg_set_flags(
             [msg EXCEPT !.payload = <<Seg(buf, 0, size)>>,
                         !.payload_size = size],
             msg_flags(msg) \cup {FLUX_MSGFLAG_PAYLOAD})
    ELSE flux_msg_set_flags(
             [msg EXCEPT !.payload = <<>>, !.payload_size = 0],
             msg_flags(msg) \ {FLUX_MSGFLAG_PAYLOAD})

\* flux_msg_route_disable: drop the routes and FLUX_MSGFLAG_ROUTE
flux_msg_route_disable(msg) ==
    IF ~msg.route THEN msg ELSE [msg EXCEPT !.routes = <<>>, !.route = FALSE]

\* flux_msg_route_first: the id at the tail of the list, the first one
\* pushed; NULL if there is none or the flag is not set
flux_msg_route_first(msg) ==
    IF ~msg.route \/ msg.routes = <<>> THEN NULL
    ELSE msg.routes[Len(msg.routes)]

\* flux_msg_route_count: EPROTO without the flag, else routes_len
flux_msg_route_count(msg) ==
    IF ~msg.route THEN [rc |-> -1, errno |-> "EPROTO"]
    ELSE [rc |-> Len(msg.routes), errno |-> ""]

\* The strings of the model are one character long, except the empty
\* string and LongTopic, which stands for a topic of 300 characters.
LongTopic == "t300"

strlen(s) == IF s = "" THEN 0 ELSE IF s = LongTopic THEN 300 ELSE 1

\* The bytes of a string, a frame without its length prefix
StrFrame(s) == IF strlen(s) = 0 THEN <<>> ELSE <<Seg(s, 0, strlen(s))>>

\* An encoded buffer is a sequence of tokens: single bytes whose value is
\* known, and runs of bytes copied from a string or a payload.
NoSeg == Seg("", 0, 0)

Byte(n) == [b |-> n, seg |-> NoSeg]

Run(seg) == [b |-> -1, seg |-> seg]

TokLen(tok) == IF tok.b >= 0 THEN 1 ELSE tok.seg.len

RECURSIVE TokBytes(_)
TokBytes(toks) ==
    IF toks = <<>> THEN 0 ELSE TokLen(Head(toks)) + TokBytes(Tail(toks))

\* The first n bytes of a buffer, and the buffer after them
RECURSIVE TokTake(_, _)
TokTake(toks, n) ==
    IF toks = <<>> \/ n = 0 THEN <<>>
    ELSE IF TokLen(Head(toks)) <= n
    THEN <<Head(toks)>> \o TokTake(Tail(toks), n - TokLen(Head(toks)))
    ELSE <<Run(Seg(Head(toks).seg.src, Head(toks).seg.off, n))>>

RECURSIVE TokDrop(_, _)
TokDrop(toks, n) ==
    IF toks = <<>> \/ n = 0 THEN toks
    ELSE IF TokLen(Head(toks)) <= n
    THEN TokDrop(Tail(toks), n - TokLen(Head(toks)))
    ELSE <<Run(Seg(Head(toks).seg.src, Head(toks).seg.off + n,
                    Head(toks).seg.len - n))>> \o Tail(toks)

\* The tokens of a run of segments
SegToks(segs) == [i \in 1..Len(segs) |-> Run(segs[i])]

\* htonl: the four bytes of a 32-bit word, most significant first
htonl(val) ==
    <<Byte(val \div 16777216), Byte((val \div 65536) % 256),
      Byte((val \div 256) % 256), Byte(val % 256)>>

\* ntohl of four byte tokens
ntohl(toks) ==
    toks[1].b * 16777216 + toks[2].b * 65536 + toks[3].b * 256 + toks[4].b

\* message_private.h: the proto frame
PROTO_MAGIC == 142

PROTO_VERSION == 1

PROTO_SIZE == 4 + (4 * 4)

\* encode_count: a frame of len bytes and its length prefix
encode_count(len) == IF len < 255 THEN 1 + len ELSE 1 + 4 + len

RECURSIVE route_frames_size(_)
route_frames_size(routes) ==
    IF routes = <<>> THEN 0
    ELSE encode_count(strlen(Head(routes))) + route_frames_size(Tail(routes))

\* flux_msg_encode_size.  The topic of a message that has the flag
\* FLUX_MSGFLAG_TOPIC is not NULL.
flux_msg_encode_size(msg) ==
    encode_count(PROTO_SIZE)
    + (IF FLUX_MSGFLAG_PAYLOAD \in msg.flags
       THEN encode_count(msg.payload_size) ELSE 0)
    + (IF FLUX_MSGFLAG_TOPIC \in msg.flags
       THEN encode_count(strlen(msg.topic[1])) ELSE 0)
    + (IF msg.route
       THEN encode_count(0) + route_frames_size(msg.routes) ELSE 0)

\* encode_frame (buf, buf_len, frame, frame_size): n is -1 (EINVAL) if the
\* prefix and the frame do not fit into buf_len bytes, else the number of
\* bytes written, toks
encode_frame(buf_len, frame, frame_size) ==
    IF frame_size < 255
    THEN IF buf_len < frame_size + 1
         THEN [n |-> -1, toks |-> <<>>]
         ELSE [n |-> frame_size + 1,
               toks |-> <<Byte(frame_size)>> \o TokTake(frame, frame_size)]
    ELSE IF buf_len < frame_size + 1 + 4
         THEN [n |-> -1, toks |-> <<>>]
         ELSE [n |-> frame_size + 1 + 4,
               toks |-> <<Byte(255)>> \o htonl(frame_size)
                        \o TokTake(frame, frame_size)]

\* The sum of a set of flag bits
RECURSIVE flags_byte(_)
flags_byte(fl) ==
    IF fl = {} THEN 0
    ELSE LET b == CHOOSE x \in fl : TRUE IN b + flags_byte(fl \ {b})

\* msg_proto_setup: magic, version, type, flags and the four words
msg_proto_setup(msg) ==
    <<Byte(PROTO_MAGIC), Byte(PROTO_VERSION), Byte(msgtype_code(msg.type)),
      Byte(flags_byte(msg_flags(msg)))>>
    \o htonl(msg.userid) \o htonl(msg.rolemask)
    \o htonl(msg.aux1) \o htonl(msg.aux2)

\* The frames flux_msg_encode writes, in its order: the routes from the
\* head of the list and the delimiter, the topic, the payload, the proto
\* frame; each as [frame, size].
Frame(toks, size) == [frame |-> toks, size |-> size]

msg_frames(msg) ==
    (IF msg.route
     THEN [i \in 1..Len(msg.routes) |->
             Frame(SegToks(StrFrame(msg.routes[i])), strlen(msg.routes[i]))]
          \o <<Frame(<<>>, 0)>>
     ELSE <<>>)
    \o (IF FLUX_MSGFLAG_TOPIC \in msg.flags
        THEN <<Frame(SegToks(StrFrame(msg.topic[1])), strlen(msg.topic[1]))>>
        ELSE <<>>)
    \o (IF FLUX_MSGFLAG_PAYLOAD \in msg.flags
        THEN <<Frame(SegToks(msg.payload), msg.payload_size)>>
        ELSE <<>>)
    \o <<Frame(msg_proto_setup(msg), PROTO_SIZE)>>

\* encode_frame for each frame in turn, into what is left of the buffer
RECURSIVE encode_frames(_, _, _)
encode_frames(frames, size, buf) ==
    IF frames = <<>> THEN [rc |-> 0, errno |-> "", buf |-> buf]
    ELSE LET e == encode_frame(size - TokBytes(buf), Head(frames).frame,
                               Head(frames).size)
         IN  IF e.n < 0 THEN [rc |-> -1, errno |-> "EINVAL", buf |-> buf]
             ELSE encode_frames(Tail(frames), size, buf \o e.toks)

\* flux_msg_encode (msg, buf, size): EPROTO for a message without a type,
\* EINVAL if size bytes are not enough; buf is what was written
flux_msg_encode(msg, size) ==
    IF msg.type = FLUX_MSGTYPE_ANY
    THEN [rc |-> -1, errno |-> "EPROTO", buf |-> <<>>]
    ELSE encode_frames(msg_frames(msg), size, <<>>)

\* The loop of flux_msg_decode: split a buffer into frames at the length
\* prefixes; EINVAL if a prefix or a frame runs over the end of the buffer.
\* Every frame of a buffer that flux_msg_encode wrote begins with a prefix
\* byte.
RECURSIVE decode_frames(_, _)
decode_frames(rest, iov) ==
    IF rest = <<>> THEN [rc |-> 0, errno |-> "", iov |-> iov]
    ELSE IF Head(rest).b < 0 THEN [rc |-> -1, errno |-> "EINVAL", iov |-> iov]
    ELSE IF Head(rest).b = 255
    THEN IF TokBytes(Tail(rest)) < 4 \/ Len(Tail(rest)) < 4
            \/ \E i \in 2..5 : rest[i].b < 0
         THEN [rc |-> -1, errno |-> "EINVAL", iov |-> iov]
         ELSE LET n == ntohl(SubSeq(rest, 2, 5))
                  p == SubSeq(rest, 6, Len(rest))
              IN  IF TokBytes(p) < n
                  THEN [rc |-> -1, errno |-> "EINVAL", iov |-> iov]
                  ELSE decode_frames(TokDrop(p, n),
                                     Append(iov, Frame(TokTake(p, n), n)))
    ELSE LET n == Head(rest).b
             p == Tail(rest)
         IN  IF TokBytes(p) < n
             THEN [rc |-> -1, errno |-> "EINVAL", iov |-> iov]
             ELSE decode_frames(TokDrop(p, n),
                                Append(iov, Frame(TokTake(p, n), n)))

\* strndup (data, size) of a frame: the string it was copied from
frame_str(f) ==
    IF f.size = 0 THEN ""
    ELSE IF Len(f.frame) = 1 /\ f.frame[1].b < 0 /\ f.frame[1].seg.off = 0
            /\ strlen(f.frame[1].seg.src) = f.size
    THEN f.frame[1].seg.src
    ELSE "?"

\* The bytes of a frame as the segments of a payload
frame_segs(f) == [i \in 1..Len(f.frame) |-> f.frame[i].seg]

\* The message type a type code stands for, FLUX_MSGTYPE_ANY if none
code_msgtype(code) ==
    IF \E t \in MsgTypes : msgtype_code(t) = code
    THEN CHOOSE t \in MsgTypes : msgtype_code(t) = code
    ELSE FLUX_MSGTYPE_ANY

\* proto_get_u32: the word at index of the proto frame
proto_get_u32(data, index) == ntohl(SubSeq(data, 5 + index * 4, 8 + index * 4))

\* The frames at the front of iov that are not empty
RECURSIVE route_frames(_)
route_frames(iov) ==
    IF iov = <<>> \/ Head(iov).size = 0 THEN <<>>
    ELSE <<frame_str(Head(iov))>> \o route_frames(Tail(iov))

\* iovec_to_msg: the last frame is the proto frame; if it has the flag
\* FLUX_MSGFLAG_ROUTE the frames up to the first empty one are routes,
\* appended in order, and the empty one is skipped; then come the topic
\* and the payload if the flags name them, and a frame must be left.
iovec_to_msg(msg, iov) ==
    IF iov = <<>> THEN MsgResult(-1, "EPROTO", msg)
    ELSE
    LET proto == iov[Len(iov)].frame
    IN
    IF \/ iov[Len(iov)].size < PROTO_SIZE
       \/ \E i \in 1..Len(proto) : proto[i].b < 0
       \/ proto[1].b # PROTO_MAGIC
       \/ proto[2].b # PROTO_VERSION
       \/ code_msgtype(proto[3].b) = FLUX_MSGTYPE_ANY
    THEN MsgResult(-1, "EPROTO", msg)
    ELSE
    LET fl == {b \in FlagBits : (proto[4].b \div b) % 2 = 1}
        routes == IF FLUX_MSGFLAG_ROUTE \in fl THEN route_frames(iov)
                  ELSE <<>>
        i1 == IF FLUX_MSGFLAG_ROUTE \in fl
              THEN (IF Len(routes) < Len(iov) THEN Len(routes) + 1
                    ELSE Len(routes))
              ELSE 0
        i2 == IF FLUX_MSGFLAG_TOPIC \in fl THEN i1 + 1 ELSE i1
        i3 == IF FLUX_MSGFLAG_PAYLOAD \in fl THEN i2 + 1 ELSE i2
    IN
    IF i3 >= Len(iov) THEN MsgResult(-1, "EPROTO", msg)
    ELSE MsgResult(0, "",
           [type |-> code_msgtype(proto[3].b),
            route |-> FLUX_MSGFLAG_ROUTE \in fl,
            routes |-> routes,
            flags |-> fl \ {FLUX_MSGFLAG_ROUTE},
            topic |-> IF FLUX_MSGFLAG_TOPIC \in fl
                      THEN <<frame_str(iov[i1 + 1])>> ELSE <<>>,
            payload |-> IF FLUX_MSGFLAG_PAYLOAD \in fl
                        THEN frame_segs(iov[i2 + 1]) ELSE <<>>,
            payload_size |-> IF FLUX_MSGFLAG_PAYLOAD \in fl
                             THEN iov[i2 + 1].size ELSE 0,
            userid |-> proto_get_u32(proto, 0),
            rolemask |-> proto_get_u32(proto, 1),
            aux1 |-> proto_get_u32(proto, 2),
            aux2 |-> proto_get_u32(proto, 3)])

\* flux_msg_decode (buf, size): msg is the new message, rc -1 for NULL
flux_msg_decode(buf) ==
    LET d == decode_frames(buf, <<>>)
    IN  IF d.rc < 0 THEN MsgResult(-1, d.errno, flux_msg_create(FLUX_MSGTYPE_ANY))
        ELSE iovec_to_msg(flux_msg_create(FLUX_MSGTYPE_ANY), d.iov)

\* What the getters of a message return: its type, flags and words, and
\* the topic, payload and routes if the flags say it has them (the getters
\* fail with EPROTO otherwise)
Observable(msg) ==
    [type |-> msg.type, flags |-> msg_flags(msg),
     userid |-> msg.userid, rolemask |-> msg.rolemask,
     aux1 |-> msg.aux1, aux2 |-> msg.aux2,
     topic |-> IF FLUX_MSGFLAG_TOPIC \in msg.flags THEN msg.topic ELSE <<>>,
     payload |-> IF FLUX_MSGFLAG_PAYLOAD \in msg.flags
                 THEN SegTake(msg.payload, msg.payload_size) ELSE <<>>,
     payload_size |-> IF FLUX_MSGFLAG_PAYLOAD \in msg.flags
                      THEN msg.payload_size ELSE 0,
     routes |-> IF msg.route THEN msg.routes ELSE <<>>]

\* Nothing was called yet.  pushes and pops count the calls of
\* flux_msg_route_push and flux_msg_route_delete_last that returned 0 on
\* the message since it was created; routes0 is the route list that the
\* latest call found.
NoFmOut ==
    [op |-> "none", rc |-> 0, errno |-> "", fl |-> {}, id |-> "",
     routes0 |-> <<>>, pushes |-> 0, pops |-> 0,
     size |-> 0, bufsize |-> 0, buf |-> <<>>,
     dec_rc |-> 0, dec |-> ZeroMsg(FLUX_MSGTYPE_ANY)]

\* The record of a call that returned r
FmOut(op, r) ==
    [NoFmOut EXCEPT !.op = op, !.rc = r.rc, !.errno = r.errno,
                    !.routes0 = fm.routes,
                    !.pushes = fm_out.pushes, !.pops = fm_out.pops]

MsgInit == fm = flux_msg_create(FLUX_MSGTYPE_ANY) /\ fm_out = NoFmOut

\* A new message of the given type takes the place of the old one
MsgCreate(type) ==
    /\ fm' = flux_msg_create(type)
    /\ fm_out' = [NoFmOut EXCEPT !.op = "create"]

SetFlags(fl) ==
    LET r == flux_msg_set_flags(fm, fl)
    IN  /\ fm' = r.msg
        /\ fm_out' = [FmOut("set_flags", r) EXCEPT !.fl = fl]

SetPrivate ==
    LET r == flux_msg_set_private(fm)
    IN  fm' = r.msg /\ fm_out' = FmOut("set_private", r)

SetStreaming ==
    LET r == flux_msg_set_streaming(fm)
    IN  fm' = r.msg /\ fm_out' = FmOut("set_streaming", r)

SetNoresponse ==
    LET r == flux_msg_set_noresponse(fm)
    IN  fm' = r.msg /\ fm_out' = FmOut("set_noresponse", r)

SetCred(userid, rolemask) ==
    LET r == flux_msg_set_cred(fm, userid, rolemask)
    IN  fm' = r.msg /\ fm_out' = FmOut("set_cred", r)

SetNodeid(nodeid) ==
    LET r == flux_msg_set_nodeid(fm, nodeid)
    IN  fm' = r.msg /\ fm_out' = FmOut("set_nodeid", r)

SetTopic(topic) ==
    LET r == flux_msg_set_topic(fm, topic)
    IN  fm' = r.msg /\ fm_out' = FmOut("set_topic", r)

\* The asserts of flux_msg_set_payload end the program if the payload
\* pointer and FLUX_MSGFLAG_PAYLOAD disagree.
SetPayload(buf, size) ==
    LET r == flux_msg_set_payload(fm, buf, size)
    IN  /\ (FLUX_MSGFLAG_PAYLOAD \in fm.flags) = (fm.payload # <<>>)
        /\ fm' = r.msg
        /\ fm_out' = [FmOut("set_payload", r) EXCEPT !.id = buf,
                                                      !.size = size]

RouteEnable ==
    /\ fm' = flux_msg_route_enable(fm)
    /\ fm_out' = FmOut("route_enable", MsgResult(0, "", fm))

RouteDisable ==
    /\ fm' = flux_msg_route_disable(fm)
    /\ fm_out' = FmOut("route_disable", MsgResult(0, "", fm))

RoutePush(id) ==
    LET r == flux_msg_route_push(fm, id)
    IN  /\ fm' = r.msg
        /\ fm_out' = [FmOut("route_push", r) EXCEPT
                        !.id = id,
                        !.pushes = IF r.rc = 0 THEN @ + 1 ELSE @]

RouteDeleteLast ==
    LET r == flux_msg_route_delete_last(fm)
    IN  /\ fm' = r.msg
        /\ fm_out' = [FmOut("route_delete_last", r) EXCEPT
                        !.pops = IF r.rc = 0 THEN @ + 1 ELSE @]

\* flux_msg_encode_size, flux_msg_encode into a buffer of that size plus
\* slack, and flux_msg_decode of what was written
Codec(slack) ==
    /\ FLUX_MSGFLAG_TOPIC \in fm.flags => fm.topic # <<>>
    /\ LET size == flux_msg_encode_size(fm)
           e == flux_msg_encode(fm, size + slack)
           d == flux_msg_decode(e.buf)
       IN  fm_out' = [FmOut("codec", e) EXCEPT
                        !.size = size, !.bufsize = size + slack,
                        !.buf = e.buf,
                        !.dec_rc = IF e.rc = 0 THEN d.rc ELSE 0,
                        !.dec = IF e.rc = 0 THEN d.msg ELSE @]
    /\ UNCHANGED fm

\* The inputs of the message specifications
CodecTopics == {<<>>, <<"">>, <<LongTopic>>}

PayloadBufs == {[buf |-> NULL, size |-> 0], [buf |-> "p", size |-> 1],
                [buf |-> "P", size |-> 300]}

CodecRouteIds == {"", "a", "b"}

\* Messages are built and taken through the codec
CodecNext ==
    \/ \E type \in MsgTypes :
         MsgCreate(type) /\ UNCHANGED <<hkVars, spVars, apVars, ovVars, hopVars, cwVars, sjVars>>
    \/ \E topic \in CodecTopics :
         SetTopic(topic) /\ UNCHANGED <<hkVars, spVars, apVars, ovVars, hopVars, cwVars, sjVars>>
    \/ \E p \in PayloadBufs :
         SetPayload(p.buf, p.size) /\ UNCHANGED <<hkVars, spVars, apVars, ovVars, hopVars, cwVars, sjVars>>
    \/ RouteEnable /\ UNCHANGED <<hkVars, spVars, apVars, ovVars, hopVars, cwVars, sjVars>>
    \/ \E id \in CodecRouteIds :
         /\ Len(fm.routes) < MaxRoutes
         /\ RoutePush(id)
         /\ UNCHANGED <<hkVars, spVars, apVars, ovVars, hopVars, cwVars, sjVars>>
    \/ SetCred(5, 1) /\ UNCHANGED <<hkVars, spVars, apVars, ovVars, hopVars, cwVars, sjVars>>
    \/ SetNodeid(3) /\ UNCHANGED <<hkVars, spVars, apVars, ovVars, hopVars, cwVars, sjVars>>
    \/ SetStreaming /\ UNCHANGED <<hkVars, spVars, apVars, ovVars, hopVars, cwVars, sjVars>>
    \/ \E slack \in {-1, 0} :
         Codec(slack) /\ UNCHANGED <<hkVars, spVars, apVars, ovVars, hopVars, cwVars, sjVars>>

\* Pushes and pops on the route stack of a message
RouteNext ==
    \/ \E type \in MsgTypes :
         MsgCreate(type) /\ UNCHANGED <<hkVars, spVars, apVars, ovVars, hopVars, cwVars, sjVars>>
    \/ RouteEnable /\ UNCHANGED <<hkVars, spVars, apVars, ovVars, hopVars, cwVars, sjVars>>
    \/ \E id \in {"a", "b"} :
         /\ fm_out.pushes < MaxPushes
         /\ RoutePush(id)
         /\ UNCHANGED <<hkVars, spVars, apVars, ovVars, hopVars, cwVars, sjVars>>
    \/ /\ fm_out.pops < MaxPops
       /\ RouteDeleteLast
       /\ UNCHANGED <<hkVars, spVars, apVars, ovVars, hopVars, cwVars, sjVars>>

\* The flag arguments of flux_msg_set_flags: every set of these bits
FlagInputs ==
    SUBSET {FLUX_MSGFLAG_TOPIC, FLUX_MSGFLAG_PRIVATE, FLUX_MSGFLAG_STREAMING,
            FLUX_MSGFLAG_NORESPONSE, 128}

\* The calls that change the flags of a message
FlagNext ==
    \/ \E type \in {"request", "response"} :
         MsgCreate(type) /\ UNCHANGED <<hkVars, spVars, apVars, ovVars, hopVars, cwVars, sjVars>>
    \/ \E fl \in FlagInputs :
         SetFlags(fl) /\ UNCHANGED <<hkVars, spVars, apVars, ovVars, hopVars, cwVars, sjVars>>
    \/ SetStreaming /\ UNCHANGED <<hkVars, spVars, apVars, ovVars, hopVars, cwVars, sjVars>>
    \/ SetNoresponse /\ UNCHANGED <<hkVars, spVars, apVars, ovVars, hopVars, cwVars, sjVars>>
    \/ SetPrivate /\ UNCHANGED <<hkVars, spVars, apVars, ovVars, hopVars, cwVars, sjVars>>
    \/ \E topic \in {<<>>, <<"a">>} :
         SetTopic(topic) /\ UNCHANGED <<hkVars, spVars, apVars, ovVars, hopVars, cwVars, sjVars>>
    \/ \E p \in {[buf |-> NULL, size |-> 0], [buf |-> "p", size |-> 1]} :
         SetPayload(p.buf, p.size) /\ UNCHANGED <<hkVars, spVars, apVars, ovVars, hopVars, cwVars, sjVars>>
    \/ RouteEnable /\ UNCHANGED <<hkVars, spVars, apVars, ovVars, hopVars, cwVars, sjVars>>
    \/ RouteDisable /\ UNCHANGED <<hkVars, spVars, apVars, ovVars, hopVars, cwVars, sjVars>>

(***************************************************************************)
(* Part G: child watchers (child_watcher.c) on a reactor with              *)
(* FLUX_REACTOR_SIGCHLD (reactor.c)                                        *)
(***************************************************************************)

\* The test program forks up to MaxChildren processes, which get the pids
\* 1, 2, ... in the order of the forks, and makes one watcher for each.
Watchers == 1..MaxChildren

Pids == 1..MaxChildren

\* What a child passes to _exit
ExitCodes == {0, 42}

\* The wait status of a process that called _exit (code); WIFEXITED and
\* WEXITSTATUS of a wait status
W_EXITCODE(code) == code * 256

WIFEXITED(status) == status % 128 = 0

WEXITSTATUS(status) == (status \div 256) % 256

\* struct child_watcher after calloc: pid 0 stands for a watcher that was
\* not created.  idle tells whether idle_w is active; prepare_w and check_w
\* are active exactly while running is true.  unreferenced is the bit of
\* the flux_watcher_t, iref tells whether prepare_w, idle_w and check_w are
\* referenced.  cbact is what the watcher's callback does to the reactor
\* before it stops the watcher.  calls, rpid, rstatus and errors are what
\* the callback has counted and read; last_ss and last_ru note the most
\* recent start or stop call and the most recent ref or unref call.
NoWatcher ==
    [pid |-> 0, status |-> 0, revents |-> {}, running |-> FALSE,
     idle |-> FALSE, calls |-> 0, rpid |-> 0, rstatus |-> 0, errors |-> 0,
     unreferenced |-> FALSE, iref |-> TRUE, cbact |-> "none",
     last_ss |-> "none", last_ru |-> "none"]

\* A process that was not forked yet
NoProc == [state |-> "none", status |-> 0]

\* flux_reactor_create (FLUX_REACTOR_SIGCHLD), nothing forked.  sigchld is
\* the SIGCHLD that the signal watcher sigchld_w has not handled yet,
\* registered is r->sigchld_cb != NULL, hash maps a pid to the index of its
\* watcher or to 0, pending lists the callbacks that this loop iteration
\* has yet to invoke (0 for the signal watcher, i for check_w of watcher i).
\* loop_done is set by ev_break; stop_error_called and stop_called note
\* what the callbacks of the current run have called, last_break which of
\* the two was called last.
reactor_create ==
    [procs |-> [p \in Pids |-> NoProc], forked |-> 0,
     sigchld |-> FALSE, registered |-> FALSE,
     cw_hash |-> FALSE, hash |-> [p \in Pids |-> 0],
     w |-> [i \in Watchers |-> NoWatcher],
     errflag |-> FALSE, phase |-> "none", pending |-> {},
     runs |-> 0, all_exited |-> FALSE, started |-> {}, ret |-> 0,
     loop_done |-> FALSE, stop_error_called |-> FALSE,
     stop_called |-> FALSE, last_break |-> "none",
     op |-> "none"]

\* cw_hash_add: cw_hash_enable if there is no hash, then zhashx_insert,
\* which fails if the pid has an entry
cw_hash_add(c, i) ==
    IF c.hash[c.w[i].pid] # 0
    THEN [rc |-> -1, c |-> [c EXCEPT !.cw_hash = TRUE, !.registered = TRUE]]
    ELSE [rc |-> 0,
          c |-> [c EXCEPT !.cw_hash = TRUE, !.registered = TRUE,
                          !.hash[c.w[i].pid] = i]]

\* cw_hash_delete replaced by one that always tears the hash down
HashDeleteDisable(c, i) ==
    [c EXCEPT !.hash = [p \in Pids |-> 0], !.cw_hash = FALSE,
              !.registered = FALSE]

\* cw_hash_delete: zhashx_delete of the watcher's pid, and cw_hash_disable
\* (reactor_sigchld_unregister, zhashx_destroy) when the hash is empty
cw_hash_delete(c, i) ==
    IF ~c.cw_hash THEN c
    ELSE LET h == [c.hash EXCEPT ![c.w[i].pid] = 0]
         IN  IF \A p \in Pids : h[p] = 0
             THEN [c EXCEPT !.hash = h, !.cw_hash = FALSE,
                            !.registered = FALSE]
             ELSE [c EXCEPT !.hash = h]

\* child_watcher_start
child_watcher_start(c, i) ==
    IF c.w[i].running THEN c
    ELSE LET a == cw_hash_add(c, i)
         IN  [a.c EXCEPT !.w[i].running = TRUE,
                         !.w[i].revents =
                             IF a.rc < 0 THEN @ \cup {"POLLERR"} ELSE @]

\* child_watcher_stop
child_watcher_stop(c, i) ==
    IF ~c.w[i].running THEN c
    ELSE [cw_hash_delete(c, i) EXCEPT !.w[i].running = FALSE,
                                      !.w[i].idle = FALSE]

\* child_watcher_ref and child_watcher_unref: ref or unref the three
\* internal watchers
child_watcher_ref(c, i) == [c EXCEPT !.w[i].iref = TRUE]

child_watcher_unref(c, i) == [c EXCEPT !.w[i].iref = FALSE]

\* child_watcher_is_active
child_watcher_is_active(c, i) == c.w[i].running

\* flux_watcher_start and flux_watcher_stop call the start and stop
\* operations of the watcher
flux_watcher_start(c, i) ==
    [child_watcher_start(c, i) EXCEPT !.w[i].last_ss = "start"]

flux_watcher_stop(c, i) ==
    [child_watcher_stop(c, i) EXCEPT !.w[i].last_ss = "stop"]

\* flux_watcher_ref: a watcher that is unreferenced has its ref operation
\* called and is referenced again
flux_watcher_ref(c, i) ==
    [(IF c.w[i].unreferenced
      THEN [child_watcher_ref(c, i) EXCEPT !.w[i].unreferenced = FALSE]
      ELSE c)
     EXCEPT !.w[i].last_ru = "ref"]

\* flux_watcher_unref replaced by one that also stops the watcher
UnrefStops(c, i) ==
    [child_watcher_stop(child_watcher_unref(c, i), i)
     EXCEPT !.w[i].unreferenced = TRUE, !.w[i].last_ru = "unref"]

\* flux_watcher_unref: a watcher that is referenced has its unref
\* operation called and is unreferenced
flux_watcher_unref(c, i) ==
    [(IF ~c.w[i].unreferenced
      THEN [child_watcher_unref(c, i) EXCEPT !.w[i].unreferenced = TRUE]
      ELSE c)
     EXCEPT !.w[i].last_ru = "unref"]

\* flux_watcher_is_active and flux_watcher_is_referenced
flux_watcher_is_active(c, i) == child_watcher_is_active(c, i)

flux_watcher_is_referenced(c, i) == ~c.w[i].unreferenced

\* flux_reactor_stop: clear the error flag and ev_break
flux_reactor_stop(c) ==
    [c EXCEPT !.errflag = FALSE, !.loop_done = TRUE,
              !.stop_called = TRUE, !.last_break = "stop"]

\* flux_reactor_stop_error: set the error flag and ev_break
flux_reactor_stop_error(c) ==
    [c EXCEPT !.errflag = TRUE, !.loop_done = TRUE,
              !.stop_error_called = TRUE, !.last_break = "stop_error"]

\* children_cb of the test: read the status and the pid from the watcher,
\* count an error unless the status is that of _exit (42), and stop it
children_cb(c, i) ==
    flux_watcher_stop(
        [c EXCEPT !.w[i].calls = @ + 1,
                  !.w[i].rstatus = c.w[i].status,
                  !.w[i].rpid = c.w[i].pid,
                  !.w[i].errors =
                      IF ~WIFEXITED(c.w[i].status)
                         \/ WEXITSTATUS(c.w[i].status) # 42
                      THEN @ + 1 ELSE @],
        i)

\* child_watcher_prepare_cb of every running watcher: start idle_w if the
\* watcher has revents
prepare_cbs(c) ==
    [c EXCEPT !.w = [i \in Watchers |->
                       IF c.w[i].running /\ c.w[i].revents # {}
                       THEN [c.w[i] EXCEPT !.idle = TRUE] ELSE c.w[i]]]

\* sigchld_cb of child_watcher.c: note status and FLUX_POLLIN in the
\* watcher that the hash has for the pid, if any
cw_sigchld_cb(c, pid, status) ==
    IF ~c.cw_hash \/ c.hash[pid] = 0 THEN c
    ELSE [c EXCEPT !.w[c.hash[pid]].status = status,
                   !.w[c.hash[pid]].revents = @ \cup {"FLUX_POLLIN"}]

\* sigchld_cb of reactor.c replaced by one that calls waitpid once
RECURSIVE SigchldOnce(_, _)
SigchldOnce(c, pid) ==
    IF pid > MaxChildren THEN c
    ELSE IF c.procs[pid].state # "zombie" THEN SigchldOnce(c, pid + 1)
    ELSE LET reaped == [c EXCEPT !.procs[pid].state = "reaped"]
         IN  IF c.registered
             THEN cw_sigchld_cb(reaped, pid, c.procs[pid].status)
             ELSE reaped

\* sigchld_cb of reactor.c: waitpid (-1, WNOHANG) until no child is left
\* that has changed state; each pid and status goes to r->sigchld_cb if
\* one is registered.  The callback touches only the watcher of the pid,
\* so the order in which waitpid reports the children makes no difference.
RECURSIVE sigchld_cb(_, _)
sigchld_cb(c, pid) ==
    IF pid > MaxChildren THEN c
    ELSE IF c.procs[pid].state # "zombie" THEN sigchld_cb(c, pid + 1)
    ELSE LET reaped == [c EXCEPT !.procs[pid].state = "reaped"]
         IN  sigchld_cb(IF c.registered
                        THEN cw_sigchld_cb(reaped, pid, c.procs[pid].status)
                        ELSE reaped,
                        pid + 1)

\* The callback of watcher i: one that stops the reactor, with or without
\* the error flag, does so before it goes on like children_cb
watcher_call(c, i) ==
    children_cb(CASE c.w[i].cbact = "stop" -> flux_reactor_stop(c)
                  [] c.w[i].cbact = "stop_error" -> flux_reactor_stop_error(c)
                  [] OTHER -> c,
                i)

\* child_watcher_check_cb: stop idle_w and, if the watcher has revents,
\* call its callback and clear them.  A check watcher that was stopped
\* while pending is not called.
child_watcher_check_cb(c, i) ==
    IF ~c.w[i].running THEN c
    ELSE IF c.w[i].revents # {}
    THEN [watcher_call([c EXCEPT !.w[i].idle = FALSE], i)
          EXCEPT !.w[i].revents = {}]
    ELSE [c EXCEPT !.w[i].idle = FALSE]

\* The watchers that keep ev_run going: prepare_w and check_w of every
\* running child watcher, and every active idle_w, unless they are
\* unreferenced.  sigchld_w is unref'ed.
activecnt(c) ==
    LET RECURSIVE cnt(_)
        cnt(i) == IF i > MaxChildren THEN 0
                  ELSE (IF c.w[i].iref
                        THEN (IF c.w[i].running THEN 2 ELSE 0)
                             + (IF c.w[i].idle THEN 1 ELSE 0)
                        ELSE 0)
                       + cnt(i + 1)
    IN  cnt(1)

\* The end of a loop iteration: ev_run goes round again while a referenced
\* watcher is active and ev_break was not called, else flux_reactor_run
\* returns the count of them, or -1 if the error flag is set
iteration_end(c) ==
    IF c.pending # {} THEN c
    ELSE IF activecnt(c) > 0 /\ ~c.loop_done
    THEN [c EXCEPT !.phase = "prepare"]
    ELSE [c EXCEPT !.phase = "done",
                   !.ret = IF c.errflag THEN -1 ELSE activecnt(c)]

CwInit == cw = reactor_create

\* One turn of the loop of test_children: fork a child, create a watcher
\* for its pid and start it
TestFork(i) ==
    /\ cw.phase \in {"none", "done"}
    /\ cw.w[i].pid = 0
    /\ cw.forked < MaxChildren
    /\ cw' = [flux_watcher_start(
                 [cw EXCEPT !.forked = @ + 1,
                            !.procs[cw.forked + 1] =
                                [state |-> "running", status |-> 0],
                            !.w[i].pid = cw.forked + 1],
                 i)
              EXCEPT !.op = "fork"]

\* A child calls _exit (code): it stays a zombie until it is waited for,
\* and SIGCHLD is raised
ProcExit(pid, code) ==
    /\ cw.procs[pid].state = "running"
    /\ cw' = [cw EXCEPT !.procs[pid] = [state |-> "zombie",
                                       status |-> W_EXITCODE(code)],
                        !.sigchld = TRUE, !.op = "exit"]

\* flux_reactor_run (r, 0) is called.  started and all_exited note which
\* watchers are running and whether the processes of all of them have
\* exited at this moment.
flux_reactor_run ==
    /\ cw.phase \in {"none", "done"}
    /\ cw.runs < MaxRuns
    /\ cw' = [cw EXCEPT
                !.errflag = FALSE, !.phase = "prepare", !.runs = @ + 1,
                !.loop_done = FALSE, !.stop_error_called = FALSE,
                !.stop_called = FALSE, !.last_break = "none",
                !.started = {i \in Watchers : cw.w[i].running},
                !.all_exited =
                    \A i \in Watchers :
                       cw.w[i].running =>
                         cw.procs[cw.w[i].pid].state = "zombie",
                !.w = [i \in Watchers |->
                         [cw.w[i] EXCEPT !.calls = 0]],
                !.op = "run"]

\* The prepare watchers are called
LoopPrepare ==
    /\ cw.phase = "prepare"
    /\ cw' = [prepare_cbs(cw) EXCEPT !.phase = "poll", !.op = "prepare"]

\* The loop waits for events, unless an idle watcher is active or no
\* referenced watcher is: it returns when SIGCHLD is pending.  The signal
\* watcher, if SIGCHLD was raised, and every check watcher become pending.
LoopPoll ==
    /\ cw.phase = "poll"
    /\ \/ cw.sigchld
       \/ \E i \in Watchers : cw.w[i].idle
       \/ activecnt(cw) = 0
    /\ cw' = iteration_end(
               [cw EXCEPT !.phase = "dispatch", !.sigchld = FALSE,
                          !.pending = (IF cw.sigchld THEN {0} ELSE {})
                                      \cup {i \in Watchers : cw.w[i].running},
                          !.op = "poll"])

\* One pending callback is invoked: the signal watcher's sigchld_cb or a
\* child watcher's check callback
LoopInvoke(x) ==
    /\ cw.phase = "dispatch"
    /\ x \in cw.pending
    /\ cw' = iteration_end(
               [(IF x = 0 THEN sigchld_cb(cw, 1)
                 ELSE child_watcher_check_cb(cw, x))
                EXCEPT !.pending = cw.pending \ {x},
                       !.op = IF x = 0 THEN "sigchld" ELSE "check"])

\* child_watcher_create: EINVAL unless pid > 0 (the reactor has
\* FLUX_REACTOR_SIGCHLD), else a watcher for pid with callback cb
child_watcher_create(c, i, pid, cb) ==
    IF pid <= 0 THEN [rc |-> -1, c |-> c]
    ELSE [rc |-> 0, c |-> [c EXCEPT !.w[i].pid = pid, !.w[i].cbact = cb]]

\* What the callback of a watcher may do to the reactor
CbActs == {"none", "stop", "stop_error"}

\* The program forks a child, creates a watcher for its pid whose callback
\* does cb, and starts it
StopFork(i, cb) ==
    /\ cw.phase \in {"none", "done"}
    /\ cw.w[i].pid = 0
    /\ cw.forked < MaxChildren
    /\ cw' = [flux_watcher_start(
                 child_watcher_create(
                     [cw EXCEPT !.forked = @ + 1,
                                !.procs[cw.forked + 1] =
                                    [state |-> "running", status |-> 0]],
                     i, cw.forked + 1, cb).c,
                 i)
              EXCEPT !.op = "fork"]

\* The program creates watcher i for a pid, between two runs of the reactor
WatcherCreate(i, pid, cb) ==
    /\ cw.phase \in {"none", "done"}
    /\ cw.w[i].pid = 0
    /\ cw' = [child_watcher_create(cw, i, pid, cb).c EXCEPT !.op = "create"]

\* The program calls flux_watcher_start, flux_watcher_stop, flux_watcher_ref
\* or flux_watcher_unref on a watcher it has created
WatcherStart(i) ==
    /\ cw.phase \in {"none", "done"}
    /\ cw.w[i].pid # 0
    /\ cw' = [flux_watcher_start(cw, i) EXCEPT !.op = "start"]

WatcherStop(i) ==
    /\ cw.phase \in {"none", "done"}
    /\ cw.w[i].pid # 0
    /\ cw' = [flux_watcher_stop(cw, i) EXCEPT !.op = "stop"]

WatcherRef(i) ==
    /\ cw.phase \in {"none", "done"}
    /\ cw.w[i].pid # 0
    /\ cw' = [flux_watcher_ref(cw, i) EXCEPT !.op = "ref"]

WatcherUnref(i) ==
    /\ cw.phase \in {"none", "done"}
    /\ cw.w[i].pid # 0
    /\ cw' = [flux_watcher_unref(cw, i) EXCEPT !.op = "unref"]

\* A program that creates watchers for any pids, starts, stops, refs and
\* unrefs them in any order and runs the reactor while no child exits
WatchNext ==
    \/ \E i \in Watchers, pid \in 0..MaxChildren :
         WatcherCreate(i, pid, "none") /\ UNCHANGED <<hkVars, spVars, apVars, ovVars, hopVars, msgVars, sjVars>>
    \/ \E i \in Watchers :
         WatcherStart(i) /\ UNCHANGED <<hkVars, spVars, apVars, ovVars, hopVars, msgVars, sjVars>>
    \/ \E i \in Watchers :
         WatcherStop(i) /\ UNCHANGED <<hkVars, spVars, apVars, ovVars, hopVars, msgVars, sjVars>>
    \/ \E i \in Watchers :
         WatcherRef(i) /\ UNCHANGED <<hkVars, spVars, apVars, ovVars, hopVars, msgVars, sjVars>>
    \/ \E i \in Watchers :
         WatcherUnref(i) /\ UNCHANGED <<hkVars, spVars, apVars, ovVars, hopVars, msgVars, sjVars>>
    \/ flux_reactor_run /\ UNCHANGED <<hkVars, spVars, apVars, ovVars, hopVars, msgVars, sjVars>>
    \/ LoopPrepare /\ UNCHANGED <<hkVars, spVars, apVars, ovVars, hopVars, msgVars, sjVars>>
    \/ LoopPoll /\ UNCHANGED <<hkVars, spVars, apVars, ovVars, hopVars, msgVars, sjVars>>
    \/ \E x \in 0..MaxChildren :
         LoopInvoke(x) /\ UNCHANGED <<hkVars, spVars, apVars, ovVars, hopVars, msgVars, sjVars>>

\* A program like test_children whose callbacks may stop the reactor
StopNext ==
    \/ \E i \in Watchers, cb \in CbActs :
         StopFork(i, cb) /\ UNCHANGED <<hkVars, spVars, apVars, ovVars, hopVars, msgVars, sjVars>>
    \/ \E pid \in Pids :
         ProcExit(pid, 42) /\ UNCHANGED <<hkVars, spVars, apVars, ovVars, hopVars, msgVars, sjVars>>
    \/ flux_reactor_run /\ UNCHANGED <<hkVars, spVars, apVars, ovVars, hopVars, msgVars, sjVars>>
    \/ LoopPrepare /\ UNCHANGED <<hkVars, spVars, apVars, ovVars, hopVars, msgVars, sjVars>>
    \/ LoopPoll /\ UNCHANGED <<hkVars, spVars, apVars, ovVars, hopVars, msgVars, sjVars>>
    \/ \E x \in 0..MaxChildren :
         LoopInvoke(x) /\ UNCHANGED <<hkVars, spVars, apVars, ovVars, hopVars, msgVars, sjVars>>

ChildNext ==
    \/ \E i \in Watchers :
         TestFork(i) /\ UNCHANGED <<hkVars, spVars, apVars, ovVars, hopVars, msgVars, sjVars>>
    \/ \E pid \in Pids, code \in ExitCodes :
         ProcExit(pid, code) /\ UNCHANGED <<hkVars, spVars, apVars, ovVars, hopVars, msgVars, sjVars>>
    \/ flux_reactor_run /\ UNCHANGED <<hkVars, spVars, apVars, ovVars, hopVars, msgVars, sjVars>>
    \/ LoopPrepare /\ UNCHANGED <<hkVars, spVars, apVars, ovVars, hopVars, msgVars, sjVars>>
    \/ LoopPoll /\ UNCHANGED <<hkVars, spVars, apVars, ovVars, hopVars, msgVars, sjVars>>
    \/ \E x \in 0..MaxChildren :
         LoopInvoke(x) /\ UNCHANGED <<hkVars, spVars, apVars, ovVars, hopVars, msgVars, sjVars>>


(***************************************************************************)
(* Part H: system jobs (src/modules/job-manager/sysjob.c)                  *)
(***************************************************************************)

SysJobs == 1..MaxSysjobs

\* A job that does not exist.  kind "sysjob" is a job that sysjob_create
\* made, with an exec context in its aux item "sysjob"; kind "plain" is any
\* other job of the job manager.  started is x->started; launches counts
\* the bulk executions that were started for the job, calls and rc the
\* sysjob_start calls and what the last one returned, finish the finish
\* events that were posted.
NoSysjob ==
    [kind |-> "none", started |-> FALSE, launches |-> 0, running |-> 0,
     calls |-> 0, rc |-> 0, finish |-> 0]

\* exec_ctx_create: the context comes from calloc, so started is false
exec_ctx_create(job) ==
    [job EXCEPT !.kind = "sysjob", !.started = FALSE]

\* bulk_exec_start: the command is launched on the ranks of R and 0 is
\* returned, or nothing is launched and -1 is returned
bulk_exec_start(job, ok) ==
    IF ok
    THEN [rc |-> 0,
          job |-> [job EXCEPT !.launches = @ + 1, !.running = @ + 1]]
    ELSE [rc |-> -1, job |-> job]

\* sysjob_start: -1 for a job without exec context, 0 if x->started, else
\* what bulk_exec_start returns.  Nothing assigns x->started.
sysjob_start(job, ok) ==
    IF job.kind # "sysjob" THEN [rc |-> -1, job |-> job]
    ELSE IF job.started THEN [rc |-> 0, job |-> job]
    ELSE bulk_exec_start(job, ok)

SjInit == sj = [j \in SysJobs |-> NoSysjob]

\* sysjob_create makes job j with its exec context
SysjobCreate(j) ==
    /\ sj[j].kind = "none"
    /\ sj' = [sj EXCEPT ![j] = exec_ctx_create(sj[j])]

\* Job j is a job that sysjob_create did not make
PlainJob(j) ==
    /\ sj[j].kind = "none"
    /\ sj' = [sj EXCEPT ![j].kind = "plain"]

\* sysjob_start is called for job j; ok tells whether bulk_exec_start
\* succeeds if it is called
SysjobStart(j, ok) ==
    /\ sj[j].kind # "none"
    /\ sj[j].calls < MaxStarts
    /\ LET r == sysjob_start(sj[j], ok)
       IN  sj' = [sj EXCEPT ![j] = [r.job EXCEPT !.calls = @ + 1,
                                                !.rc = r.rc]]

\* bulk_complete_cb: a bulk execution of job j is complete, the finish
\* event is posted
bulk_complete_cb(j) ==
    /\ sj[j].running > 0
    /\ sj' = [sj EXCEPT ![j].running = @ - 1, ![j].finish = @ + 1]

SysjobNext ==
    \/ \E j \in SysJobs :
         SysjobCreate(j) /\ UNCHANGED <<hkVars, spVars, apVars, ovVars, hopVars, msgVars, cwVars>>
    \/ \E j \in SysJobs :
         PlainJob(j) /\ UNCHANGED <<hkVars, spVars, apVars, ovVars, hopVars, msgVars, cwVars>>
    \/ \E j \in SysJobs, ok \in BOOLEAN :
         SysjobStart(j, ok) /\ UNCHANGED <<hkVars, spVars, apVars, ovVars, hopVars, msgVars, cwVars>>
    \/ \E j \in SysJobs :
         bulk_complete_cb(j) /\ UNCHANGED <<hkVars, spVars, apVars, ovVars, hopVars, msgVars, cwVars>>

Init ==
    HkInit /\ SpInit /\ ApInit /\ OvInit /\ HopInit /\ MsgInit /\ CwInit /\ SjInit

HkSpec == Init /\ [][HkNext]_vars

SpSpec == Init /\ [][SpNext]_vars

AppendSpec == Init /\ [][AppendNext]_vars

OvSpec == Init /\ [][OvNext]_vars

HopSpec == Init /\ [][HopNext]_vars

\* A two-broker instance seen from rank 0, bootstrapped
PeerStart ==
    HkInit /\ SpInit /\ ApInit /\ PeerInit /\ HopInit /\ MsgInit /\ CwInit /\ SjInit

PeerSpec == PeerStart /\ [][PeerNext]_vars

\* A two-broker instance seen from rank 1, bootstrapped
PauseStart ==
    HkInit /\ SpInit /\ ApInit /\ PauseInit /\ HopInit /\ MsgInit /\ CwInit /\ SjInit

PauseSpec == PauseStart /\ [][PauseNext]_vars

CodecSpec == Init /\ [][CodecNext]_vars

RouteSpec == Init /\ [][RouteNext]_vars

FlagSpec == Init /\ [][FlagNext]_vars

ChildSpec == Init /\ [][ChildNext]_vars

WatchSpec == Init /\ [][WatchNext]_vars

StopSpec == Init /\ [][StopNext]_vars

SysjobSpec == Init /\ [][SysjobNext]_vars

\* flux_reactor_run does not stop halfway: the loop calls its prepare
\* watchers, polls unless it has to wait, and invokes what is pending.
ChildFairSpec ==
    /\ ChildSpec
    /\ WF_vars(LoopPrepare /\ UNCHANGED <<hkVars, spVars, apVars, ovVars, hopVars, msgVars, sjVars>>)
    /\ WF_vars(LoopPoll /\ UNCHANGED <<hkVars, spVars, apVars, ovVars, hopVars, msgVars, sjVars>>)
    /\ WF_vars(\E x \in 0..MaxChildren :
                 LoopInvoke(x) /\ UNCHANGED <<hkVars, spVars, apVars, ovVars, hopVars, msgVars, sjVars>>)

\* Every client runs its append loop to the end: a response that was sent
\* is delivered, and the client then sends its retry or its next request.
AppendFairSpec ==
    /\ AppendSpec
    /\ \A c \in Clients :
         WF_vars((SC_stream(c) \/ SC_retry(c)) /\ UNCHANGED <<hkVars, ovVars, hopVars, msgVars, cwVars, sjVars>>)

\* Scripts complete and timers fire: the reactor delivers the end of every
\* response stream and every armed timer.
HkFairSpec ==
    /\ HkSpec
    /\ \A r \in ValidRanks :
         WF_vars(housekeeping_continuation(r, "ENODATA") /\ UNCHANGED <<spVars, apVars, ovVars, hopVars, msgVars, cwVars, sjVars>>)
    /\ \A j \in Jobs : WF_vars(allocation_timeout(j) /\ UNCHANGED <<spVars, apVars, ovVars, hopVars, msgVars, cwVars, sjVars>>)

(***************************************************************************)
(* Properties of housekeeping                                              *)
(***************************************************************************)

\* Ranks carried by the free requests sent for job j so far
Freed(j) == UNION {frees[j][i] : i \in 1..Len(frees[j])}

\* The step is the final continuation of the script on rank r
FinishStep(r) == nscripts'[r] < nscripts[r]

\* The step completes a script that job j was waiting for
FinishFor(j, r) == r \in ValidRanks /\ FinishStep(r) /\ r \in allocations[j].pending

\* The step is allocation j's timer firing
TimerStep(j) ==
    /\ nscripts' = nscripts
    /\ allocations[j].timer_armed
    /\ ~allocations[j].timer_expired
    /\ IF j \in Tracked' THEN allocations'[j].timer_expired
       ELSE j \notin dropped'

\* Allocation j is retired by this step because everything was released
Retired(j) == j \in Tracked /\ j \notin Tracked' /\ j \notin dropped'

\* C1: at most one script invocation is in flight on any rank, and
\* hk->targets[rank] is set exactly while it is.
C1_OnePerRank ==
    \A r \in ValidRanks : nscripts[r] <= 1 /\ (targets[r] <=> nscripts[r] = 1)

\* C1 witness: two allocations wait for the same rank, one script runs there
C1_Witness ==
    \E r \in ValidRanks :
        /\ nscripts[r] = 1
        /\ Cardinality({j \in Tracked : r \in allocations[j].pending}) = 2

C2_Step(j) ==
    /\ (j \in Tracked /\ release_after = default_release_after) =>
          /\ frees[j] = <<>>
          /\ (frees'[j] # frees[j] \/ Retired(j)) =>
                /\ frees'[j] = <<jobs[j].R>>
                /\ Retired(j)
                /\ \E r \in ValidRanks :
                      FinishFor(j, r) /\ allocations[j].pending = {r}
    /\ (j \in Started /\ j \notin Tracked) => frees'[j] = frees[j]

\* C2: with release-after unset, no free request is sent for a job while
\* any of its ranks is pending; the completion of its last pending script
\* sends the job's only free request, carrying all of R.
C2_FullRelease == [][\A j \in Jobs : C2_Step(j)]_vars

\* C2 witness: a job on two ranks went through housekeeping under the
\* never policy and got its single free request
C2_Witness ==
    \E j \in Started :
        /\ jobs[j].hk /\ jobs[j].R = {0, 1} /\ jobs[j].steady
        /\ release_after = default_release_after
        /\ j \notin Tracked
        /\ frees[j] = <<{0, 1}>>
        /\ \A r \in ValidRanks : nscripts[r] = 0

\* Job j has been under policy ra since housekeeping_start
Under(j, ra) == j \in Tracked /\ jobs[j].steady /\ release_after = ra

C3_OriginalStep(j) ==
    Under(j, 0) =>
        /\ \A r \in ValidRanks :
              FinishFor(j, r) => frees'[j] = Append(frees[j], {r})
        /\ (frees'[j] # frees[j]) => \E r \in ValidRanks : FinishFor(j, r)
        /\ Retired(j) => Len(frees'[j]) = Cardinality(jobs[j].R)

\* C3 as claimed: with release-after = 0 every script completion sends a
\* free request with exactly the finished rank, N requests in all.
C3_Original == [][\A j \in Jobs : C3_OriginalStep(j)]_vars

C3_Step(j) ==
    Under(j, 0) =>
        /\ \A r \in ValidRanks :
              FinishFor(j, r) =>
                 frees'[j] = Append(frees[j],
                                    IF frees[j] = <<>>
                                    THEN {r} \cup jobs[j].startfail
                                    ELSE {r})
        /\ (frees'[j] # frees[j]) => \E r \in ValidRanks : FinishFor(j, r)
        /\ Retired(j) =>
              Len(frees'[j]) = Cardinality(jobs[j].R \ jobs[j].startfail)

\* C3 amended: with release-after = 0 a free request is sent at each script
\* completion of the job and at no other time, carrying the rank that just
\* finished; the first one also carries the ranks whose script could not
\* be started.  A job whose N scripts all started gets N single-rank
\* requests in finishing order.
C3_PerRank == [][\A j \in Jobs : C3_Step(j)]_vars

\* C3 witness: ranks 1 then 0 finished and were freed in that order
C3_Witness ==
    \E j \in Started :
        /\ jobs[j].hk /\ jobs[j].steady /\ release_after = 0
        /\ jobs[j].startfail = {}
        /\ j \notin Tracked
        /\ frees[j] = <<{1}, {0}>>

C4_OriginalStep(j) ==
    (j \in Tracked /\ jobs[j].steady /\ release_after > 0) =>
        /\ (frees'[j] # frees[j]) =>
              (allocations[j].timer_expired \/ TimerStep(j))
        /\ (TimerStep(j) /\ frees'[j] # frees[j]) =>
              frees'[j] = Append(frees[j],
                                 (jobs[j].R \ jobs[j].startfail)
                                    \ allocations[j].pending)
        /\ \A r \in ValidRanks :
              (FinishFor(j, r) /\ allocations[j].timer_expired) =>
                 frees'[j] = Append(frees[j], {r})

\* C4 as claimed: with release-after > 0 no free request precedes the
\* timer; the timer's request carries the ranks finished so far; later
\* finishers are freed one by one.
C4_Original == [][\A j \in Jobs : C4_OriginalStep(j)]_vars

C4_Inv(j) ==
    (j \in Tracked /\ jobs[j].steady /\ release_after > 0) =>
        /\ allocations[j].timer_armed
             <=> (allocations[j].pending # jobs[j].R \ jobs[j].startfail)
        /\ ~allocations[j].timer_expired => frees[j] = <<>>

C4_Step(j) ==
    (j \in Tracked /\ jobs[j].steady /\ release_after > 0) =>
        /\ (frees'[j] # frees[j]) =>
              \/ TimerStep(j)
              \/ \E r \in ValidRanks : FinishFor(j, r)
        /\ TimerStep(j) =>
              frees'[j] = Append(frees[j],
                                 jobs[j].R \ allocations[j].pending)
        /\ \A r \in ValidRanks :
              FinishFor(j, r) =>
                 frees'[j] =
                    IF allocations[j].timer_expired
                    THEN Append(frees[j], {r})
                    ELSE IF allocations[j].pending = {r}
                    THEN <<jobs[j].R>>
                    ELSE <<>>

\* C4 amended: with release-after = d > 0 the timer is armed when the
\* first rank of the job finishes.  Before it fires a free request is sent
\* only if the job's last pending rank finishes, and that one request
\* carries all of R.  When the timer fires, one request carries every rank
\* of R that is not pending (finished, or never started).  After that each
\* finishing rank is freed at once, alone.
C4_Delayed ==
    /\ [](\A j \in Jobs : C4_Inv(j))
    /\ [][\A j \in Jobs : C4_Step(j)]_vars

\* C4 witness: the timer fired with rank 0 finished and rank 1 running
C4_Witness ==
    \E j \in Tracked :
        /\ jobs[j].steady /\ release_after > 0
        /\ jobs[j].R = {0, 1}
        /\ allocations[j].timer_expired
        /\ allocations[j].pending = {1}
        /\ frees[j] = <<{0}>>

\* C4 witness of the last clause: after the timer's request, rank 1
\* finished and was freed alone
C4_WitnessAfter ==
    \E j \in Started :
        /\ jobs[j].hk /\ jobs[j].steady /\ release_after > 0
        /\ jobs[j].R = {0, 1, 2}
        /\ j \notin Tracked
        /\ frees[j] = <<{0, 2}, {1}>>

\* C5 as claimed: housekeeping_start of a job frees all of R at once,
\* tracks nothing and starts nothing when no command is configured or the
\* job has the SYSTEM flag.
C5_ImmediateFree ==
    [][(next_id' # next_id /\ (~cmd \/ jobs'[next_id].sys)) =>
          /\ frees'[next_id] = <<jobs'[next_id].R>>
          /\ next_id \notin Tracked'
          /\ nscripts' = nscripts]_vars

\* C6 as claimed: every rank of every job handed to housekeeping_start is
\* eventually freed, unless a scheduler hello dropped the allocation.
C6_EventuallyFreed ==
    \A j \in Jobs :
        (j \in Started) ~> (Freed(j) = jobs[j].R \/ j \in dropped)

C7_HelloStep ==
    (out'.kind = "hello") =>
        /\ \A j \in Tracked :
              /\ (j \notin Tracked') <=>
                    \/ allocations[j].free_count > 0
                    \/ j \in out'.missing
                    \/ j \in out'.fail
              /\ (j \in Tracked') =>
                    allocations'[j] = allocations[j] /\ out'.resp[j] = 1
              /\ (j \notin Tracked') => j \in dropped'
        /\ \A j \in Jobs \ Tracked' : out'.resp[j] = 0
        /\ Tracked' \subseteq Tracked

\* C7: a scheduler hello drops exactly the allocations that were partially
\* released, whose job is missing, or whose response failed to send; the
\* others stay as they are with one response each; no free request is
\* sent for a dropped job any more.
C7_Hello ==
    [][/\ C7_HelloStep
       /\ \A j \in dropped : frees'[j] = frees[j] /\ j \notin Tracked']_vars

\* C7 witness: a partially released allocation was dropped, all scripts
\* have completed since, and its remaining ranks were never freed
C7_Witness ==
    \E j \in dropped :
        /\ frees[j] # <<>>
        /\ Freed(j) # jobs[j].R
        /\ \A r \in ValidRanks : nscripts[r] = 0

\* C7 witness of the hello itself: one allocation dropped, one answered
C7_WitnessHello ==
    /\ out.kind = "hello"
    /\ \E j \in dropped, k \in Tracked : out.resp[k] = 1 /\ frees[j] # <<>>

\* C8 as claimed: once a configuration without a release-after key is
\* loaded, release_after is unset.
C8_ReloadResets ==
    (out.kind = "conf" /\ out.ra_key = "absent") =>
        release_after = default_release_after

\* This step is a successful sc of key "a" by client c
ScSucceeds(c) ==
    /\ sp_version' = sp_version + 1
    /\ sp_out' = [op |-> "sc", client |-> c, key |-> "a", status |-> "ok"]

\* The version carried by the sc that succeeds in this step
ScVersion == sp_data'["a"].version - 1

\* C9: LL/SC linearisability.  When an sc of client c on key "a" succeeds
\* with the version that c's last ll of "a" returned, no store on "a" has
\* succeeded between that ll and this sc.
C9_LinkedStore ==
    [][\A c \in Clients :
         (ScSucceeds(c) /\ sp_link[c].ver = ScVersion) => sp_link[c].ok]_vars

\* A response that ends a stream
Terminal(kind) == kind # "data"

\* C10: the responses sent to an sc-stream request are non-terminal
\* {version, data} responses followed by at most one terminal response:
\* nothing is sent to a request after its terminal response.
C10_TerminalLast ==
    \A n \in 1..Len(sp_streams) :
      \A i \in 1..(Len(sp_streams[n].resp) - 1) :
        ~Terminal(sp_streams[n].resp[i])

\* The elements of a json array, oldest first
RECURSIVE ArrayOf(_)
ArrayOf(data) ==
    IF data = Null THEN <<>>
    ELSE Append(ArrayOf(data \div 10), data % 10)

\* The array stored under the key the clients append to
Foo == ArrayOf(lookup("a").data)

\* The positions of array arr that hold element e
PositionsOf(arr, e) == {i \in 1..Len(arr) : arr[i] = e}

\* Every client has finished all of its appends
AllAppended == \A c \in Clients : ap[c].done = NumAppends /\ ~ap[c].wait

\* The array holds exactly the appends that have succeeded, each once, and
\* those of one client in the order the client issued them
AppendsApplied ==
    /\ \A c \in Clients, i \in 1..NumAppends :
         Cardinality(PositionsOf(Foo, Element(c, i)))
           = IF i <= ap[c].done THEN 1 ELSE 0
    /\ \A c \in Clients, i \in 1..NumAppends, k \in 1..NumAppends :
         (i < k /\ k <= ap[c].done) =>
           \A m \in PositionsOf(Foo, Element(c, i)),
              n \in PositionsOf(Foo, Element(c, k)) : m < n
    /\ Len(Foo) = lookup("a").version

\* C11: in the sc-stream append loop every append eventually succeeds, no
\* append is lost or applied twice (the final array is as long as the
\* number of appends), and the array keeps each client's issuing order.
C11_AppendLoop ==
    /\ []AppendsApplied
    /\ [](AllAppended => Len(Foo) = NumClients * NumAppends)
    /\ <>[]AllAppended

\* C11 witness: all appends are in, the one that went in first was
\* client 2's, and some request lost a race after its first response
C11_Witness ==
    /\ AllAppended
    /\ Foo[1] = Element(2, 1)
    /\ \E n \in 1..Len(sp_streams) : Len(sp_streams[n].resp) >= 3

\* The entries other than that of key are the same after the step
OthersSame(key) ==
    /\ DOMAIN sp_data' \ {key} = DOMAIN sp_data \ {key}
    /\ \A k \in DOMAIN sp_data \ {key} : sp_data'[k] = sp_data[k]

\* The step stores [version, data] under key and counts one mutation
Stores(key, version, data) ==
    /\ key \in DOMAIN sp_data'
    /\ sp_data'[key] = [version |-> version, data |-> data]
    /\ OthersSame(key)
    /\ sp_version' = sp_version + 1

C12_Step(c, version, data) ==
    sc_cb(c, "a", version, data) =>
      IF lookup("a").version = version
      THEN sp_out'.status = "ok" /\ Stores("a", version + 1, data)
      ELSE sp_out'.status = "EDEADLK" /\ UNCHANGED <<sp_data, sp_version>>

\* C12: an sc on a regular key succeeds iff the request version equals the
\* key's current version (0 for a missing key); on success the entry
\* becomes {version + 1, data} and ctx->version grows by one; on mismatch
\* it fails with EDEADLK and neither the entries nor ctx->version change.
C12_StoreConditional ==
    [][\A c \in Clients, version \in 0..MaxVersion, data \in Data :
         C12_Step(c, version, data)]_vars

\* C12 witness: an sc was refused with EDEADLK on a key that is at version 1
C12_Witness ==
    /\ sp_out.op = "sc" /\ sp_out.key = "a" /\ sp_out.status = "EDEADLK"
    /\ "a" \in DOMAIN sp_data
    /\ sp_data["a"].version = 1

\* C12 witness of a success: an sc took a present key from version 1 to 2
C12_WitnessStored ==
    /\ sp_out.op = "sc" /\ sp_out.key = "a" /\ sp_out.status = "ok"
    /\ sp_data["a"].version = 2

\* The request sc_retry_cb answers for client c is one on key "."
RetryTargetsDot(c) ==
    find_request(c, Tag) # 0 /\ sp_streams[find_request(c, Tag)].key = "."

\* The step answers an sc request
ScStep == sp_out'.op = "sc"

\* The step receives an sc-stream request
StreamStep == Len(sp_streams') = Len(sp_streams) + 1

\* The step sends a response to a listed sc-stream request
RetryStep == Len(sp_streams') = Len(sp_streams) /\ sp_streams' # sp_streams

\* The latest response sent to request n
LastResp(n) == sp_streams'[n].resp[Len(sp_streams'[n].resp)]

C13_OriginalStep(c, version, data) ==
    /\ (ScStep /\ sc_cb(c, ".", version, data)) =>
         sp_out'.status = "EROFS" /\ UNCHANGED <<sp_data, sp_version>>
    /\ (StreamStep /\ sc_stream_cb(c, Tag, ".", version, data, TRUE)) =>
         /\ LastResp(Len(sp_streams')) = "EROFS"
         /\ UNCHANGED <<sp_data, sp_version, sp_requests>>
    /\ (/\ RetryStep
        /\ RetryTargetsDot(c)
        /\ sc_retry_cb(c, Tag, version, data, TRUE)) =>
         /\ LastResp(find_request(c, Tag)) = "EROFS"
         /\ UNCHANGED <<sp_data, sp_version, sp_requests>>

\* C13 as claimed: every sc, sc-stream and sc-retry that targets key "."
\* fails with EROFS, whatever its version, and changes nothing.
C13_Original ==
    [][\A c \in Clients, version \in 0..MaxVersion, data \in Data :
         C13_OriginalStep(c, version, data)]_vars

C13_Step(c, version, data) ==
    /\ (ScStep /\ sc_cb(c, ".", version, data)) =>
         /\ sp_out'.status
              = IF version = sp_version THEN "EROFS" ELSE "EDEADLK"
         /\ UNCHANGED <<sp_data, sp_version, sp_requests, sp_streams>>
    /\ (StreamStep /\ sc_stream_cb(c, Tag, ".", version, data, TRUE)) =>
         /\ LastResp(Len(sp_streams'))
              = IF version = sp_version THEN "EROFS" ELSE "data"
         /\ sp_requests' = IF version = sp_version THEN sp_requests
                           ELSE Append(sp_requests, Len(sp_streams'))
         /\ UNCHANGED <<sp_data, sp_version>>
    /\ (/\ RetryStep
        /\ RetryTargetsDot(c)
        /\ sc_retry_cb(c, Tag, version, data, TRUE)) =>
         /\ LastResp(find_request(c, Tag))
              = IF version = sp_version THEN "EROFS" ELSE "data"
         /\ UNCHANGED <<sp_data, sp_version, sp_requests>>

\* C13 amended: an sc, sc-stream or sc-retry that targets key "." never
\* changes the entries or ctx->version.  It fails with EROFS exactly when
\* its version equals ctx->version; with any other version an sc fails
\* with EDEADLK, an sc-stream is listed and sent a non-terminal response,
\* and an sc-retry sends the listed request a non-terminal response.
C13_ReadOnly ==
    [][\A c \in Clients, version \in 0..MaxVersion, data \in Data :
         C13_Step(c, version, data)]_vars

\* C13 witness: on a pad at version 1, an sc-stream on "." was listed and
\* then refused with EROFS at a retry
C13_Witness ==
    /\ sp_version = 1
    /\ \E n \in 1..Len(sp_streams) :
         sp_streams[n].key = "." /\ sp_streams[n].resp = <<"data", "EROFS">>

\* C13 witness for sc: an sc on "." was refused with EROFS on a pad with
\* an entry
C13_WitnessSc ==
    /\ sp_out.op = "sc" /\ sp_out.key = "." /\ sp_out.status = "EROFS"
    /\ sp_version = 1

\* C14 as claimed: an ll of key "." returns version ctx->version (with the
\* entries as data) while the pad holds an entry, and version 0 (with null
\* data) exactly when the pad holds no entry, also once every key has been
\* deleted.  lookup pairs null data with version 0 of ".", so the versions
\* tell the two answers apart.
C14_WholePad ==
    IF DOMAIN sp_data = {}
    THEN lookup(".").version = 0
    ELSE lookup(".").version = sp_version /\ lookup(".").version # 0

\* ctx->version grows by one in this step
Bumped == sp_version' = sp_version + 1

\* The step answers a delete request, or drops one silently
DeleteStep == sp_out'.op \in {"delete", "none"} /\ sp_streams' = sp_streams

\* The step is a successful sc
ScOk == ScStep /\ sp_out'.status = "ok"

\* The step is an sc-stream that stored at once
StreamOk == StreamStep /\ LastResp(Len(sp_streams')) = "ENODATA"

\* The step is an sc-retry that stored
RetryOk ==
    /\ RetryStep
    /\ \E n \in 1..Len(sp_streams) :
         sp_streams'[n] # sp_streams[n] /\ LastResp(n) = "ENODATA"

\* The step is a delete request with the NORESPONSE flag
DeleteAny == DeleteStep /\ \E c \in Clients, key \in Keys : delete_cb(c, key, TRUE)

\* The step is a delete request that removes a present key
DeleteOk == DeleteAny /\ DOMAIN sp_data' # DOMAIN sp_data

\* ctx->version never decreases; it grows by one on every successful sc,
\* sc-stream and sc-retry, and on no other step except a delete
C15_Stores ==
    /\ sp_version' \in {sp_version, sp_version + 1}
    /\ (ScOk \/ StreamOk \/ RetryOk) => Bumped
    /\ Bumped => (ScOk \/ StreamOk \/ RetryOk \/ DeleteAny)

\* C15 as claimed: ctx->version never decreases, grows by exactly one on
\* every successful sc, sc-stream and sc-retry and on every delete request,
\* and is left alone by ll and by every failed request.
C15_Original == [][C15_Stores /\ (DeleteAny => Bumped)]_vars

\* C15 amended: ctx->version never decreases, grows by exactly one on
\* every successful sc, sc-stream and sc-retry and on every delete request
\* that removes a present key, and is left alone by ll, by a delete of a
\* missing key and by every failed request.
C15_Monotonic == [][C15_Stores /\ (DeleteAny => (Bumped <=> DeleteOk))]_vars

\* C15 witness: a store and the delete of the stored key were counted
C15_Witness == sp_version = 2 /\ DOMAIN sp_data = {}

\* C15 witness of the stores: an sc-stream was listed, its retry stored,
\* and ctx->version is 1
C15_WitnessRetry ==
    /\ sp_version = 1
    /\ \E n \in 1..Len(sp_streams) :
         sp_streams[n].resp = <<"data", "ENODATA">>

(***************************************************************************)
(* Properties of the overlay router                                        *)
(***************************************************************************)
\* The ranks of the subtree rooted at rank r: r and, through the children
\* k*r+1 .. k*r+k that exist, everything below them
RECURSIVE Subtree(_, _, _)
Subtree(k, size, r) ==
    {r} \cup UNION {Subtree(k, size, c) :
                       c \in {k * r + j + 1 : j \in 0..(k - 1)}
                             \cap 0..(size - 1)}

\* The children of this broker through which nodeid is reached
NextHops(nodeid) ==
    {n \in 1..Len(ov.children) :
        nodeid \in Subtree(ov.tbon_k, ov.size, ov.children[n].rank)}

\* The latest call was overlay_sendmsg of a message of this type with
\* where = OVERLAY_ANY
SentAny(type) ==
    ov_out.op = "sendmsg" /\ ov_out.in.type = type /\ ov_out.arg = "ANY"

\* The latest overlay_sendmsg handed exactly the message m to the link of
\* its direction, and failed with EHOSTUNREACH if that link does not exist
HandedTo(where, m) ==
    /\ ov_out.where = where
    /\ ov_out.msg = m
    /\ Len(ov_out.sent) = 1
    /\ ov_out.sent[1].msg = m
    /\ ov_out.sent[1].link = (IF where = "UPSTREAM" THEN "parent" ELSE "child")
    /\ ov_out.sent[1].errno = ov_out.errno
    /\ (ov_out.rc = 0) <=> (ov_out.errno = "")
    /\ (IF where = "UPSTREAM" THEN ~ov.parent_zsock ELSE ~ov.bind_zsock)
          => ov_out.rc = -1 /\ ov_out.errno = "EHOSTUNREACH"

C16_WitnessNoLink ==
    /\ SentAny("request")
    /\ ov_out.where = "DOWNSTREAM"
    /\ ~ov.bind_zsock
    /\ ov_out.errno = "EHOSTUNREACH"

\* The uuid of the broker that has rank among its children in the k-ary
\* tree of this size, NULL if there is none
ParentOf(k, size, rank) ==
    LET parents == {p \in 0..(size - 1) :
                       \E j \in 0..(k - 1) : k * p + j + 1 = rank}
    IN  IF rank < size /\ parents # {}
        THEN rank_uuid(CHOOSE p \in parents : TRUE)
        ELSE NULL

ParentId == ParentOf(ov.tbon_k, ov.size, ov.rank)

\* C17: overlay_sendmsg of a RESPONSE with where = ANY goes UPSTREAM iff
\* rank > 0 and the top of its route stack is the parent's peer id; with
\* rank 0, with an empty or absent route stack and with any other id on
\* top it goes DOWNSTREAM.  The message is handed on as it is.
C17_ResponseAny ==
    SentAny("response") =>
        IF /\ ov.rank > 0
           /\ ov_out.in.route
           /\ ov_out.in.routes # <<>>
           /\ Head(ov_out.in.routes) = ParentId
        THEN HandedTo("UPSTREAM", ov_out.in)
        ELSE HandedTo("DOWNSTREAM", ov_out.in)

\* C17 witness: rank 2 of a chain of three sent a response whose top
\* route is its parent 1 upstream
C17_Witness ==
    /\ SentAny("response")
    /\ ov.rank = 2 /\ ov.tbon_k = 1 /\ ov.size = 3
    /\ ov_out.in.routes = <<"1">>
    /\ ov_out.where = "UPSTREAM"
    /\ ov_out.rc = 0

\* C17 witness of the other cases: rank 0 sent a response with "0" on top
\* downstream, and a broker with a parent sent one without a route stack
\* downstream
C17_WitnessDown ==
    /\ SentAny("response")
    /\ ov_out.where = "DOWNSTREAM"
    /\ \/ ov.rank = 0 /\ ov_out.in.routes = <<"0">>
       \/ ov.parent_zsock /\ ~ov_out.in.route

\* C18: over one overlay hop, (a) a request the child sends to its parent
\* is handed to the parent's dispatch with the child's id on top of its
\* route stack, and the response carrying that stack is handed to the
\* child's dispatch with that id removed; (b) a request the parent routes
\* to the child with where = ANY is handed to the child's dispatch with the
\* parent's id on top, the child's response goes UPSTREAM, and it is handed
\* to the parent's dispatch with the route stack the request had before it
\* was routed.
C18_RoundTrip ==
    /\ hop.stage = "a2" =>
         /\ hop.msg.type = "request"
         /\ hop.msg.routes = <<rank_uuid(hop.rank)>> \o hop.orig.routes
    /\ hop.stage = "a4" =>
         /\ hop.msg.type = "response"
         /\ hop.msg.routes = hop.orig.routes
    /\ hop.stage = "b2" =>
         /\ hop.msg.type = "request"
         /\ hop.msg.routes = <<ParentOf(hop.k, hop.size, hop.rank)>>
                             \o hop.orig.routes
    /\ hop.stage = "b3" => hop.where = "UPSTREAM"
    /\ hop.stage = "b4" =>
         /\ hop.msg.type = "response"
         /\ hop.msg.routes = hop.orig.routes

\* C18 witness: in a chain of three, a response to a request of a local
\* client that rank 1 routed to rank 2 came back to rank 1's dispatch
C18_Witness ==
    /\ hop.stage = "b4"
    /\ hop.k = 1 /\ hop.size = 3 /\ hop.rank = 2
    /\ hop.orig.routes = <<"c">>
    /\ hop.msg.routes = <<"c">>

\* C18 witness of (a): the response to a request that rank 2 sent to its
\* parent 0 reached rank 2's dispatch
C18_WitnessUp ==
    /\ hop.stage = "a4"
    /\ hop.k = 2 /\ hop.size = 3 /\ hop.rank = 2
    /\ hop.orig.routes = <<"c">>

\* This step is overlay_sendmsg multicasting an event whose route stack is
\* empty or absent, as parent_cb hands events on
McastStep ==
    /\ ov_out'.op = "sendmsg"
    /\ ov_out'.in.type = "event"
    /\ ov_out'.arg \in {"DOWNSTREAM", "ANY"}
    /\ ov_out'.in.routes = <<>>

\* This step handed exactly one copy of the event to the child socket for
\* each child in S and none for any other: a copy of its own, with the
\* route stack enabled and holding that child's uuid and nothing else
CopiesTo(S) ==
    /\ Len(ov_out'.sent) = Cardinality(S)
    /\ \A n \in S :
         \E i \in 1..Len(ov_out'.sent) :
           /\ ov_out'.sent[i].link = "child"
           /\ ov_out'.sent[i].msg =
                [ov_out'.in EXCEPT !.route = TRUE,
                                   !.routes = <<ov.children[n].uuid>>]

\* parent_cb hands an event to the local dispatch with its route stack
\* cleared
ParentEventCleared ==
    (ov_out'.op = "parent_cb" /\ ov_out'.in.type = "event") =>
        /\ ov_out'.recv.type = "event"
        /\ ov_out'.where = "UPSTREAM"
        /\ ov_out'.recv.routes = <<>>

\* C19 as claimed: an event received from the parent and multicast
\* downstream is sent exactly once to each child, as a copy whose route
\* stack holds only that child's id, whatever the number of monitor
\* requests.
C19_Original ==
    [][ParentEventCleared
       /\ (McastStep => CopiesTo(1..Len(ov.children)))]_vars

\* C19 amended: an event received from the parent and multicast
\* downstream is handed to the child socket exactly once for each child
\* whose connected flag is set, as a copy whose route stack holds only that
\* child's id, and not at all for a child whose connected flag is clear,
\* whatever the number of monitor requests.
C19_Multicast ==
    [][ParentEventCleared
       /\ (McastStep =>
             CopiesTo({n \in 1..Len(ov.children) :
                          ov.children[n].connected}))]_vars

\* C19 witness: rank 0 with two connected children and two monitor
\* requests multicast an event, and both sockets took their copy
C19_Witness ==
    /\ ov_out.op = "sendmsg"
    /\ ov_out.in.type = "event"
    /\ ov_out.arg = "DOWNSTREAM"
    /\ ov.monitor_requests = 2
    /\ Len(ov_out.sent) = 2
    /\ ov_out.sent[1].errno = "" /\ ov_out.sent[2].errno = ""
    /\ ov_out.sent[1].msg.routes = <<"1">>
    /\ ov_out.sent[2].msg.routes = <<"2">>

\* C19 witness of the child that is passed over: of two children one was
\* connected, and the multicast made one copy
C19_WitnessMissed ==
    /\ ov_out.op = "sendmsg"
    /\ ov_out.in.type = "event"
    /\ ov_out.arg = "DOWNSTREAM"
    /\ Len(ov.children) = 2
    /\ Len(ov_out.sent) = 1
    /\ ov_out.sent[1].errno = ""

\* C19 witness of the event from the parent: a broker with a parent and a
\* connected child was handed an event by parent_cb
C19_WitnessParent ==
    /\ ov_out.op = "parent_cb"
    /\ ov_out.recv.type = "event"
    /\ ov_out.in.routes = <<"c">>
    /\ \E n \in 1..Len(ov.children) : ov.children[n].connected

\* This step's overlay_sendmsg handed a message to the child socket for
\* the connected child n, and the send failed with EHOSTUNREACH
Unreachable(n) ==
    /\ ov.children[n].connected
    /\ \E i \in 1..Len(ov_out'.sent) :
         /\ ov_out'.sent[i].link = "child"
         /\ ov_out'.sent[i].to = ov.children[n].uuid
         /\ ov_out'.sent[i].errno = "EHOSTUNREACH"

\* C20: whenever a send to a child (a request, a response or a copy of a
\* multicast event) fails with EHOSTUNREACH, that child's connected flag
\* becomes false and overlay_monitor_notify is called; a call in which no
\* send fails with EHOSTUNREACH leaves every connected flag as it was.
C20_Unreachable ==
    [][ov_out'.op = "sendmsg" =>
         /\ \A n \in 1..Len(ov.children) :
              Unreachable(n) =>
                  ~ov'.children[n].connected /\ ov_out'.notify > 0
         /\ (\A n \in 1..Len(ov.children) : ~Unreachable(n)) =>
                ov'.children = ov.children]_vars

\* The same for the copies of a multicast event only
C20_McastOnly ==
    [][(ov_out'.op = "sendmsg" /\ ov_out'.in.type = "event") =>
         /\ \A n \in 1..Len(ov.children) :
              Unreachable(n) =>
                  ~ov'.children[n].connected /\ ov_out'.notify > 0
         /\ (\A n \in 1..Len(ov.children) : ~Unreachable(n)) =>
                ov'.children = ov.children]_vars

\* ---- Properties of a broker watching its child ----

\* What the idle flag of a child is said to stand for
IdleDue(child) ==
    \/ child.connected /\ ov.now - child.lastseen >= idle_max
    \/ child.test_pause

\* C21: in every state a child's idle flag is true if and only if the
\* child is connected and now - lastseen >= idle_max, or the child has
\* announced test_pause.  Stated for the states sync_cb leaves, where the
\* idle scan has just run.
C21_IdleFlag ==
    ov_out.op = "sync" =>
        \A n \in 1..Len(ov.children) :
            ov.children[n].idle <=> IdleDue(ov.children[n])

\* C21: the same in every state, the scan having run or not
C21_IdleFlagAlways ==
    \A n \in 1..Len(ov.children) :
        ov.children[n].idle <=> IdleDue(ov.children[n])

\* C21: what the scan does establish: in the states sync_cb leaves the
\* idle flag of a connected child is as stated
C21_ConnectedIdleFlag ==
    ov_out.op = "sync" =>
        \A n \in 1..Len(ov.children) :
            ov.children[n].connected =>
                (ov.children[n].idle <=> IdleDue(ov.children[n]))

\* C22: a connected child that has sent no message for idle_max seconds
\* is marked idle within sync_max seconds
C22_Detect ==
    \A n \in 1..Len(ov.children) :
        (/\ ov.children[n].connected
         /\ ov.now - ov.children[n].lastseen >= idle_max + sync_max)
            => ov.children[n].idle

\* C22: every step that changes a child's idle flag tells the observers:
\* one call of monitor_update for that child with its new status, answered
\* to every request in monitor_requests
C22_Told ==
    [][\A n \in 1..Len(ov.children) :
          ov'.children[n].idle # ov.children[n].idle =>
              \E i \in 1..Len(ov_out'.updates) :
                  /\ ov_out'.updates[i].rank = ov.children[n].rank
                  /\ ov_out'.updates[i].idle = ov'.children[n].idle
                  /\ ov_out'.updates[i].copies = ov.monitor_requests]_vars

\* C22: once a message from an idle child has been received, the child's
\* idle flag is cleared within sync_max seconds (unless the child has
\* announced test_pause, which makes it idle)
C22_Recover ==
    \A n \in 1..Len(ov.children) :
        (/\ ov.children[n].idle
         /\ ~ov.children[n].test_pause
         /\ ov.now - ov.children[n].lastseen < idle_max)
            => ov.now - ov.children[n].lastseen <= sync_max

\* C22: the same for a child that the message left connected
C22_RecoverConnected ==
    \A n \in 1..Len(ov.children) :
        (/\ ov.children[n].idle
         /\ ov.children[n].connected
         /\ ~ov.children[n].test_pause
         /\ ov.now - ov.children[n].lastseen < idle_max)
            => ov.now - ov.children[n].lastseen <= sync_max

\* ---- Properties of a broker pausing its sends to the parent ----

\* The keepalives among the messages the last step transmitted to the
\* parent (the socket took them)
KeepalivesSent ==
    {i \in 1..Len(ov_out.sent) :
        /\ ov_out.sent[i].link = "parent"
        /\ ov_out.sent[i].errno = ""
        /\ ov_out.sent[i].msg.type = "keepalive"}

\* C23: a broker transmits to its parent at most one keepalive in any
\* idle_min interval; in particular no handler transmits two at once
C23_OneKeepalive == Cardinality(KeepalivesSent) <= 1

\* C23: sync_cb hands a NORMAL keepalive to overlay_sendmsg_parent only
\* when parent_lastsent is more than idle_min old
C23_SyncKeepalive ==
    [][(/\ ov_out'.op = "sync"
        /\ \/ ov_out'.sent # <<>>
           \/ ov'.test_backlog.msgs # ov.test_backlog.msgs)
           => ov.now - ov.parent_lastsent > idle_min]_vars

\* The last step answered every pending overlay.monitor request with the
\* status child n has now
Reported(n) ==
    \E i \in 1..Len(ov_out'.updates) :
        /\ ov_out'.updates[i].rank = ov'.children[n].rank
        /\ ov_out'.updates[i].connected = ov'.children[n].connected
        /\ ov_out'.updates[i].idle = ov'.children[n].idle
        /\ ov_out'.updates[i].copies = ov.monitor_requests

\* C24: after the snapshot, every change of a child's connected or idle
\* status is reported to every pending streaming overlay.monitor request
\* as one response {rank, connected, idle, reason}, so that a client
\* applying the updates to the snapshot has the current child status
C24_Reported ==
    [][\A n \in 1..Len(ov.children) :
          (/\ ov.monitor_requests > 0
           /\ \/ ov'.children[n].connected # ov.children[n].connected
              \/ ov'.children[n].idle # ov.children[n].idle)
              => Reported(n)]_vars

\* C24: the same for the changes of the idle flag alone
C24_IdleReported ==
    [][\A n \in 1..Len(ov.children) :
          ov'.children[n].idle # ov.children[n].idle => Reported(n)]_vars

\* C24: the first response lists {rank, connected, idle} of every child
C24_Snapshot ==
    (ov_out.op = "monitor" /\ ov_out.rc = 0) =>
        /\ Len(ov_out.snapshot) = Len(ov.children)
        /\ \A n \in 1..Len(ov.children) :
             /\ ov_out.snapshot[n].rank = ov.children[n].rank
             /\ ov_out.snapshot[n].connected = ov.children[n].connected
             /\ ov_out.snapshot[n].idle = ov.children[n].idle

\* The messages the last step handed to the parent socket, in order
HandedToParent ==
    [i \in 1..Len(ov_out'.sent) |-> ov_out'.sent[i].msg]

\* C25: test pause is a lossless, order-preserving toggle.  Entering it
\* hands one TEST_PAUSE keepalive to the parent socket and creates an
\* empty backlog; while it lasts nothing is handed to the parent socket
\* and every message sent upstream is appended to test_backlog; leaving it
\* hands every queued message to the parent socket once, in the order
\* queued, within the handler (so before anything sent later), and frees
\* the backlog
C25_PauseToggle ==
    [][/\ (ov_out'.op = "pause" /\ ov.test_backlog.null) =>
            /\ HandedToParent = <<Keepalive(KEEPALIVE_STATUS_TEST_PAUSE)>>
            /\ ov_out'.sent[1].link = "parent"
            /\ ov'.test_backlog = [null |-> FALSE, msgs |-> <<>>]
       /\ (ov_out'.op = "pause" /\ ~ov.test_backlog.null) =>
            /\ HandedToParent = ov.test_backlog.msgs
            /\ \A i \in 1..Len(ov_out'.sent) :
                 ov_out'.sent[i].link = "parent"
            /\ ov'.test_backlog = [null |-> TRUE, msgs |-> <<>>]
       /\ (ov_out'.op = "sendmsg" /\ ~ov.test_backlog.null) =>
            /\ ov_out'.sent = <<>>
            /\ ov_out'.rc = 0
            /\ ov'.test_backlog =
                   [null |-> FALSE,
                    msgs |-> Append(ov.test_backlog.msgs, ov_out'.msg)]
       /\ (ov_out'.op = "sync" /\ ~ov.test_backlog.null) =>
            /\ ov_out'.sent = <<>>
            /\ ~ov'.test_backlog.null
            /\ \/ ov'.test_backlog.msgs = ov.test_backlog.msgs
               \/ ov'.test_backlog.msgs =
                      Append(ov.test_backlog.msgs,
                             Keepalive(KEEPALIVE_STATUS_NORMAL))]_vars

\* C25: the pause was left with two different requests and a keepalive
\* queued, and they were handed to the parent socket
C25_Witness ==
    /\ ov_out.op = "pause"
    /\ ov.test_backlog.null
    /\ Len(ov_out.sent) = 3
    /\ ov_out.sent[1].msg.type = "request"
    /\ ov_out.sent[2].msg.type = "request"
    /\ ov_out.sent[1].msg # ov_out.sent[2].msg
    /\ ov_out.sent[3].msg.type = "keepalive"

\* C25: the pause was entered and its keepalive taken by the socket
C25_WitnessEnter ==
    /\ ov_out.op = "pause"
    /\ ~ov.test_backlog.null
    /\ Len(ov_out.sent) = 1
    /\ ov_out.sent[1].errno = ""
    /\ ov_out.sent[1].msg.status = KEEPALIVE_STATUS_TEST_PAUSE

\* The last step was child_cb reading a message whose top route id is the
\* uuid of child n
FromChild(n) ==
    /\ ov_out'.op = "child_cb"
    /\ flux_msg_route_last(ov_out'.in) = ov.children[n].uuid

\* The message child_cb read was a DISCONNECT keepalive
ReadDisconnect ==
    /\ ov_out'.in.type = "keepalive"
    /\ ov_out'.in.status = KEEPALIVE_STATUS_DISCONNECT

\* A message whose top route id matches no child is dropped: no child
\* changes, nothing is handed to recv_cb, nobody is notified
UnknownDropped ==
    (/\ ov_out'.op = "child_cb"
     /\ child_lookup(ov, flux_msg_route_last(ov_out'.in)) = 0)
        => /\ ov'.children = ov.children
           /\ ov_out'.recv = NoMsg
           /\ ov_out'.notify = 0

\* C26 as claimed: a disconnected child stays disconnected through sync
\* ticks and sends, and the next message received from it, whatever it is,
\* sets connected = true and lastseen = now and notifies the observers;
\* messages of unknown peers are dropped
C26_Original ==
    [][/\ \A n \in 1..Len(ov.children) :
            ~ov.children[n].connected =>
                IF FromChild(n)
                THEN /\ ov'.children[n].connected
                     /\ ov'.children[n].lastseen = ov.now
                     /\ ov_out'.notify = 1
                ELSE ~ov'.children[n].connected
       /\ UnknownDropped]_vars

\* C26: a disconnected child stays disconnected through sync ticks and
\* sends; the next message received from it sets lastseen = now and,
\* unless it is a DISCONNECT keepalive, sets connected = true and calls
\* overlay_monitor_notify once; a DISCONNECT keepalive leaves the child
\* disconnected and notifies nobody; messages of unknown peers are dropped
C26_Reconnect ==
    [][/\ \A n \in 1..Len(ov.children) :
            ~ov.children[n].connected =>
                IF FromChild(n)
                THEN /\ ov'.children[n].lastseen = ov.now
                     /\ ov'.children[n].connected = ~ReadDisconnect
                     /\ ov_out'.notify = IF ReadDisconnect THEN 0 ELSE 1
                ELSE ~ov'.children[n].connected
       /\ UnknownDropped]_vars

\* C26: a child that had been connected long enough to be found idle, and
\* was disconnected since, has just been heard from again
C26_Witness ==
    /\ ov_out.op = "child_cb"
    /\ ov_out.notify = 1
    /\ ov_out.in.type = "request"
    /\ ov.children[1].connected
    /\ ov.children[1].idle
    /\ ov.children[1].lastseen = ov.now

\* C26: the message of a peer that is no child was read while the child
\* was connected
C26_WitnessUnknown ==
    /\ ov_out.op = "child_cb"
    /\ child_lookup(ov, flux_msg_route_last(ov_out.in)) = 0
    /\ ov.children[1].connected

(***************************************************************************)
(* Properties of the message codec, route stack and flags                  *)
(***************************************************************************)

\* The latest call took fm through flux_msg_encode_size, flux_msg_encode
\* into a buffer of exactly that size, and flux_msg_decode
Encoded ==
    /\ fm_out.op = "codec"
    /\ fm_out.bufsize = fm_out.size
    /\ fm.type # FLUX_MSGTYPE_ANY

\* The round trip succeeded: encode wrote encode_size bytes and decode
\* returned a message with the same observable fields
RoundTrip ==
    /\ fm_out.rc = 0
    /\ TokBytes(fm_out.buf) = fm_out.size
    /\ fm_out.dec_rc = 0
    /\ Observable(fm_out.dec) = Observable(fm)

\* C27: for every message that has a type, whatever its flags, topic,
\* payload, route stack, userid, rolemask and type-specific words, encode
\* writes exactly encode_size bytes and decode of those bytes yields a
\* message equal to it in every observable field.
C27_RoundTrip == Encoded => RoundTrip

\* C27, restricted: the round trip holds for every message none of whose
\* route ids is the empty string (an enabled but empty stack included).
C27_RoundTripNonEmptyIds ==
    Encoded /\ (\A i \in 1..Len(fm.routes) : fm.routes[i] # "") => RoundTrip

\* C27: a message with two distinct route ids, a topic of 300 characters
\* and a payload that was replaced by a shorter one has made the round trip
C27_WitnessFull ==
    /\ Encoded /\ RoundTrip
    /\ Len(fm.routes) = 2 /\ fm.routes[1] # fm.routes[2]
    /\ fm.topic = <<LongTopic>>
    /\ Len(fm.payload) = 2
    /\ fm.userid = 5

\* C27: a message with routes enabled and no route has made the round trip
C27_WitnessEmptyStack ==
    Encoded /\ RoundTrip /\ fm.route /\ fm.routes = <<>>

\* C27: a buffer one byte short makes encode fail with EINVAL
C27_ShortBuffer ==
    fm_out.op = "codec" /\ fm_out.bufsize < fm_out.size
    /\ fm.type # FLUX_MSGTYPE_ANY
    => fm_out.rc = -1 /\ fm_out.errno = "EINVAL"

\* C28: on a message with routes enabled, the route count always equals the
\* number of pushes that returned 0 minus the number of pops that returned 0.
C28_CountIsPushesMinusPops ==
    fm.route => flux_msg_route_count(fm).rc = fm_out.pushes - fm_out.pops

\* C28: route_first after any successful push returns the pushed id.
C28_FirstIsPushed ==
    fm_out.op = "route_push" /\ fm_out.rc = 0
    => flux_msg_route_first(fm) = fm_out.id

\* C28, as the code has it: a successful push adds one to the route count
\* and puts the id on top; a pop right after it gives back the stack the
\* push found; route_first after a push onto an empty stack returns the
\* pushed id, and otherwise stays what it was (the oldest id); a pop returns
\* 0 and takes one off the count unless the stack is empty, which it leaves
\* empty.
C28_RouteStack ==
    [][/\ (fm_out'.op = "route_push" /\ fm_out'.rc = 0) =>
            /\ fm.route
            /\ flux_msg_route_count(fm').rc = flux_msg_route_count(fm).rc + 1
            /\ flux_msg_route_last(fm') = fm_out'.id
            /\ flux_msg_route_first(fm') =
                 (IF fm.routes = <<>> THEN fm_out'.id
                  ELSE flux_msg_route_first(fm))
       /\ (fm_out.op = "route_push" /\ fm_out.rc = 0
           /\ fm_out'.op = "route_delete_last") =>
            fm_out'.rc = 0 /\ fm'.routes = fm_out.routes0
       /\ (fm_out'.op = "route_delete_last" /\ fm.route) =>
            /\ fm_out'.rc = 0
            /\ flux_msg_route_count(fm').rc =
                 (IF fm.routes = <<>> THEN 0
                  ELSE flux_msg_route_count(fm).rc - 1)
       /\ (fm_out'.op = "route_delete_last" /\ ~fm.route) =>
            fm_out'.rc = -1 /\ fm_out'.errno = "EPROTO" /\ fm' = fm
      ]_vars

\* C28: a second id was pushed and popped again, leaving the first
C28_Witness ==
    /\ fm_out.op = "route_delete_last" /\ fm_out.rc = 0
    /\ Len(fm_out.routes0) = 2
    /\ fm_out.pushes = 2 /\ fm_out.pops = 1
    /\ flux_msg_route_count(fm).rc = 1

\* C28: an empty stack was popped
C28_WitnessEmptyPop ==
    /\ fm_out.op = "route_delete_last" /\ fm_out.rc = 0
    /\ fm_out.routes0 = <<>> /\ fm.routes = <<>>

\* C29: the flags of a message never contain both STREAMING and NORESPONSE,
\* whatever was called on it.
C29_Exclusive ==
    ~(FLUX_MSGFLAG_STREAMING \in fm.flags /\ FLUX_MSGFLAG_NORESPONSE \in fm.flags)

\* C29: set_flags rejects STREAMING together with NORESPONSE and any
\* unknown bit with EINVAL and leaves the message as it was, and otherwise
\* makes the flags what it was given; set_streaming returns 0, sets
\* STREAMING and clears NORESPONSE; set_noresponse returns 0, sets
\* NORESPONSE and clears STREAMING; neither touches another flag.
C29_FlagCalls ==
    [][/\ fm_out'.op = "set_flags" =>
            IF \/ {FLUX_MSGFLAG_STREAMING, FLUX_MSGFLAG_NORESPONSE}
                    \subseteq fm_out'.fl
               \/ 128 \in fm_out'.fl
            THEN fm_out'.rc = -1 /\ fm_out'.errno = "EINVAL" /\ fm' = fm
            ELSE fm_out'.rc = 0 /\ msg_flags(fm') = fm_out'.fl
       /\ fm_out'.op = "set_streaming" =>
            /\ fm_out'.rc = 0
            /\ msg_flags(fm') =
                 (msg_flags(fm) \ {FLUX_MSGFLAG_NORESPONSE})
                 \cup {FLUX_MSGFLAG_STREAMING}
       /\ fm_out'.op = "set_noresponse" =>
            /\ fm_out'.rc = 0
            /\ msg_flags(fm') =
                 (msg_flags(fm) \ {FLUX_MSGFLAG_STREAMING})
                 \cup {FLUX_MSGFLAG_NORESPONSE}
      ]_vars

\* C29: set_flags was refused STREAMING with NORESPONSE on a message that
\* has a topic, a payload, routes enabled and the flag STREAMING
C29_Witness ==
    /\ fm_out.op = "set_flags" /\ fm_out.rc = -1
    /\ {FLUX_MSGFLAG_STREAMING, FLUX_MSGFLAG_NORESPONSE} \subseteq fm_out.fl
    /\ 128 \notin fm_out.fl
    /\ msg_flags(fm) = {FLUX_MSGFLAG_TOPIC, FLUX_MSGFLAG_PAYLOAD,
                        FLUX_MSGFLAG_ROUTE, FLUX_MSGFLAG_STREAMING}

\* C29: set_noresponse has replaced STREAMING by NORESPONSE
C29_WitnessSwitch ==
    /\ fm_out.op = "set_noresponse" /\ fm_out.rc = 0
    /\ FLUX_MSGFLAG_NORESPONSE \in fm.flags
    /\ FLUX_MSGFLAG_PRIVATE \in fm.flags
    /\ FLUX_MSGFLAG_STREAMING \notin fm.flags

\* C29: both together: the flags are never STREAMING with NORESPONSE, and
\* the three calls behave as C29_FlagCalls says.
C29_Flags == []C29_Exclusive /\ C29_FlagCalls

(***************************************************************************)
(* Properties of the child watchers                                        *)
(***************************************************************************)

\* flux_reactor_run has just returned from a run that began when the
\* processes of all started child watchers had exited
RunReturned ==
    /\ cw.phase = "done"
    /\ cw.op \in {"poll", "sigchld", "check"}
    /\ cw.all_exited

\* During and after such a run, the callback of every watcher that was
\* started has been called at most once, and no other callback at all
OnceAtMost ==
    cw.all_exited /\ cw.op \in {"run", "prepare", "poll", "sigchld", "check"}
    => \A i \in Watchers :
         cw.w[i].calls <= (IF i \in cw.started THEN 1 ELSE 0)

\* At the return every started watcher was called once, with the pid it was
\* created for and the wait status of that process, and is stopped; the
\* run returns 0
EachOnce ==
    RunReturned
    => /\ cw.ret = 0
       /\ \A i \in cw.started :
            /\ cw.w[i].calls = 1
            /\ cw.w[i].rpid = cw.w[i].pid
            /\ cw.w[i].rstatus = cw.procs[cw.w[i].pid].status
            /\ cw.procs[cw.w[i].pid].state = "reaped"
            /\ ~cw.w[i].running

\* C30: with K child watchers started on K distinct pids whose processes
\* have all exited before the reactor runs, one run calls each watcher's
\* callback exactly once, with its own pid and wait status, and, each
\* callback stopping its watcher, the run returns 0.
C30_Children ==
    /\ [](OnceAtMost /\ EachOnce)
    /\ (cw.op = "run" /\ cw.all_exited) ~> (cw.phase = "done")

\* C30: a run with MaxChildren watchers, whose processes had exited with
\* different codes, has returned
C30_Witness ==
    /\ RunReturned
    /\ cw.started = Watchers
    /\ \A i \in Watchers : cw.w[i].calls = 1
    /\ \E i \in Watchers : cw.w[i].errors = 1
    /\ \E i \in Watchers : cw.w[i].errors = 0

\* Some child watcher is active
AnyActive == \E i \in Watchers : flux_watcher_is_active(cw, i)

\* The pid-to-watcher table exists and sigchld_cb of child_watcher.c is
\* registered with the reactor
TableExists == cw.cw_hash /\ cw.registered

\* Neither the table nor the registration exists
TableGone == ~cw.cw_hash /\ ~cw.registered

\* C31: the pid-to-watcher table and the SIGCHLD callback registration
\* exist exactly while at least one child watcher is active, after any
\* sequence of start and stop calls on any child watchers, watchers for the
\* same pid included.
C31_TableIffActive == IF AnyActive THEN TableExists ELSE TableGone

\* C31, restricted: the table and the registration exist exactly while a
\* watcher is active, as long as no two watchers that were created have the
\* same pid.
C31_TableIffActiveDistinct ==
    (\A i, j \in Watchers :
        i # j /\ cw.w[i].pid # 0 => cw.w[i].pid # cw.w[j].pid)
    => C31_TableIffActive

\* C31: of two watchers for one pid, both started, one was stopped: the
\* other is active and the table is gone
C31_TornDownEarly ==
    /\ cw.op = "stop"
    /\ \E i, j \in Watchers :
         /\ i # j /\ cw.w[i].pid = cw.w[j].pid
         /\ cw.w[i].running /\ ~cw.w[j].running
    /\ TableGone

\* is_active of every watcher tells whether its most recent start or stop
\* call was a start, is_referenced whether its most recent ref or unref
\* call was not an unref
BitsFollowCalls ==
    \A i \in Watchers :
       /\ flux_watcher_is_active(cw, i) = (cw.w[i].last_ss = "start")
       /\ flux_watcher_is_referenced(cw, i) = (cw.w[i].last_ru # "unref")

\* A start or stop call leaves is_referenced of every watcher as it was, a
\* ref or unref call leaves is_active of every watcher as it was
BitsIndependent ==
    /\ cw'.op \in {"start", "stop"}
       => \A i \in Watchers :
            flux_watcher_is_referenced(cw', i)
              = flux_watcher_is_referenced(cw, i)
    /\ cw'.op \in {"ref", "unref"}
       => \A i \in Watchers :
            flux_watcher_is_active(cw', i) = flux_watcher_is_active(cw, i)

\* C32: after any sequence of start, stop, ref and unref calls on a child
\* watcher, is_active is true iff the most recent start or stop call was a
\* start (false at first) and is_referenced is true iff the most recent ref
\* or unref call was a ref (true at first); start and stop never change
\* is_referenced, ref and unref never change is_active, whether the watcher
\* is active or not.
C32_TwoBits == []BitsFollowCalls /\ [][BitsIndependent]_vars

\* C32: one watcher was unreferenced while active and then stopped, the
\* other was unreferenced while inactive, started and referenced again
C32_Witness ==
    /\ cw.op = "ref"
    /\ \E i, j \in Watchers :
         /\ cw.w[i].last_ss = "stop" /\ cw.w[i].last_ru = "unref"
         /\ ~flux_watcher_is_active(cw, i)
         /\ ~flux_watcher_is_referenced(cw, i)
         /\ cw.w[j].last_ss = "start" /\ cw.w[j].last_ru = "ref"
         /\ flux_watcher_is_active(cw, j)
         /\ flux_watcher_is_referenced(cw, j)

\* flux_reactor_run has just returned
Returned == cw.phase = "done" /\ cw.op \in {"poll", "sigchld", "check"}

\* C33: flux_reactor_run returns -1 whenever a watcher callback called
\* flux_reactor_stop_error during that run, and otherwise the non-negative
\* count of pending watchers; an error flag left over from an earlier run
\* never makes a later run fail.
C33_ErrorIffStopError ==
    Returned
    => IF cw.stop_error_called THEN cw.ret = -1
       ELSE cw.ret >= 0 /\ cw.ret = activecnt(cw)

\* C33, as the code has it: flux_reactor_run returns -1 exactly when the
\* last of the flux_reactor_stop and flux_reactor_stop_error calls of that
\* run was a flux_reactor_stop_error, and otherwise the count.
C33_ErrorIffLastStopError ==
    Returned
    => IF cw.last_break = "stop_error" THEN cw.ret = -1
       ELSE cw.ret >= 0 /\ cw.ret = activecnt(cw)

\* C33: a run in which one callback called flux_reactor_stop_error and a
\* later one flux_reactor_stop has returned 0
C33_ErrorLost ==
    /\ Returned
    /\ cw.stop_error_called /\ cw.last_break = "stop"
    /\ cw.ret = 0

\* C33: the second run has returned 0 after the first had returned -1 and
\* left the error flag set
C33_SecondRunSucceeds ==
    /\ Returned /\ cw.runs = 2 /\ cw.ret = 0
    /\ ~cw.stop_error_called
    /\ \E i \in Watchers : cw.w[i].cbact = "stop_error" /\ cw.w[i].rpid # 0

\* Request n has been sent no terminal response yet
ActiveStream(n) ==
    \A i \in 1..Len(sp_streams[n].resp) : ~Terminal(sp_streams[n].resp[i])

\* The sc-stream request that an sc-retry of client c is matched with, 0 if
\* none: as the claim has it, an active one; as the code has it, a listed one
ActiveMatch(c) ==
    IF find_request(c, Tag) # 0 /\ ActiveStream(find_request(c, Tag))
    THEN find_request(c, Tag) ELSE 0

ListedMatch(c) == find_request(c, Tag)

\* The step sends request n the response kind and nothing else to any stream
SendsOnly(n, kind) ==
    sp_streams' = [sp_streams EXCEPT ![n].resp = Append(@, kind)]

\* The step stores {version + 1, data} under key and counts one mutation
StoresEntry(key, version, data) ==
    /\ key \in DOMAIN sp_data'
    /\ sp_data'[key] = [version |-> version + 1, data |-> data]
    /\ \A k \in DOMAIN sp_data' \ {key} :
         k \in DOMAIN sp_data /\ sp_data'[k] = sp_data[k]
    /\ DOMAIN sp_data \subseteq DOMAIN sp_data'
    /\ sp_version' = sp_version + 1

\* What the claim says of an sc-retry of client c, matched with request n
\* (0 if with none); readonly tells whether the read-only key "." is
\* excepted from the store
RetryStep34(c, version, data, n, readonly) ==
    /\ sc_retry_cb(c, Tag, version, data, TRUE) /\ n # 0 =>
         IF version # lookup(sp_streams[n].key).version
         THEN SendsOnly(n, "data") /\ UNCHANGED <<sp_data, sp_version>>
         ELSE IF readonly /\ sp_streams[n].key = "."
         THEN SendsOnly(n, "EROFS") /\ UNCHANGED <<sp_data, sp_version>>
         ELSE /\ SendsOnly(n, "ENODATA")
              /\ StoresEntry(sp_streams[n].key, version, data)
    /\ sc_retry_cb(c, Tag, version, data, TRUE) /\ n = 0 =>
         UNCHANGED <<sp_data, sp_version, sp_streams>>
    /\ sc_retry_cb(c, Tag, version, data, FALSE) =>
         /\ sp_out'.status = "EPROTO"
         /\ UNCHANGED <<sp_data, sp_version, sp_streams>>

\* C34: an sc-retry with the NORESPONSE flag that matches an active
\* sc-stream request stores the data and sends that stream the terminal
\* ENODATA iff its version equals the current version of the stream's key,
\* and otherwise sends it one non-terminal response and leaves the store
\* alone; an sc-retry without the flag fails with EPROTO and one that
\* matches no active stream has no effect: neither changes the store or
\* sends any stream a response.
C34_Retry ==
    [][\A c \in Clients, version \in 0..MaxVersion, data \in Data :
         RetryStep34(c, version, data, ActiveMatch(c), FALSE)]_vars

\* C34 with the read-only key excepted: a matching version on a stream of
\* key "." is answered EROFS and nothing is stored.
C34_RetryReadOnly ==
    [][\A c \in Clients, version \in 0..MaxVersion, data \in Data :
         RetryStep34(c, version, data, ActiveMatch(c), TRUE)]_vars

\* C34 as the code has it: the same, of an sc-retry that matches a request
\* listed in ctx->requests, whether or not it was sent a terminal response.
C34_RetryListed ==
    [][\A c \in Clients, version \in 0..MaxVersion, data \in Data :
         RetryStep34(c, version, data, ListedMatch(c), TRUE)]_vars

\* C34: a stream that had been sent ENODATA by a retry was matched by a
\* later retry, which stored again and sent it a second ENODATA
C34_StaleMatch ==
    \E n \in 1..Len(sp_streams) :
       /\ sp_streams[n].key = "a"
       /\ sp_streams[n].resp = <<"data", "ENODATA", "ENODATA">>
       /\ sp_data["a"].version = 3

\* C34: an active stream was sent a non-terminal response by a retry with a
\* stale version and then ENODATA by one with the current version
C34_Witness ==
    \E n \in 1..Len(sp_streams) :
       /\ sp_streams[n].key = "a"
       /\ sp_streams[n].resp = <<"data", "data", "ENODATA">>
       /\ "a" \in DOMAIN sp_data

\* C35: sysjob_start is idempotent: for a job with a sysjob exec context
\* the first call starts the bulk execution and every later call returns 0
\* without starting it again, so the job's command is launched at most once
\* however often sysjob_start is called.
C35_LaunchedOnce ==
    \A j \in SysJobs :
       sj[j].kind = "sysjob"
       => /\ sj[j].launches <= 1
          /\ sj[j].launches = 1 /\ sj[j].calls > 1 => sj[j].rc = 0

\* C35: a job without exec context is never started: sysjob_start returns
\* -1 for it
C35_PlainJobRefused ==
    \A j \in SysJobs :
       sj[j].kind = "plain"
       => sj[j].launches = 0 /\ (sj[j].calls > 0 => sj[j].rc = -1)

\* C35: the second sysjob_start for a job has launched its command again
C35_LaunchedTwice ==
    \E j \in SysJobs :
       sj[j].kind = "sysjob" /\ sj[j].calls = 2 /\ sj[j].launches = 2

\* A script is in flight on rank r and recorded in hk->targets[r].f
InFlight(r) == r \in ValidRanks /\ targets[r] /\ nscripts[r] = 1

\* Every rank that is pending in a tracked allocation has a script in
\* flight
PendingHasScript ==
    \A j \in Tracked : \A r \in allocations[j].pending : InFlight(r)

\* The completion of the script on a rank clears the rank from the pending
\* set of every allocation
CompletionClearsAll ==
    \A r \in ValidRanks :
       targets[r] /\ ~targets'[r]
       => \A j \in DOMAIN allocations' : r \notin allocations'[j].pending

\* C36: in every reachable state every rank in the pending set of a tracked
\* allocation has an in-flight script recorded in targets[rank]; so the
\* completion of one script on rank r clears r from the pending set of
\* every allocation that contains it, and no allocation is left waiting on
\* a rank on which nothing runs.
C36_PendingInFlight == []PendingHasScript /\ [][CompletionClearsAll]_vars

\* C36: two tracked allocations shared a rank whose one script has
\* completed; both still wait for another rank
C36_Witness ==
    \E i, j \in Tracked, r \in ValidRanks :
       /\ i # j
       /\ r \in jobs[i].R \cap jobs[j].R
       /\ r \notin jobs[i].startfail \cup jobs[j].startfail
       /\ ~targets[r]
       /\ r \notin allocations[i].pending \cup allocations[j].pending
       /\ allocations[i].pending # {} /\ allocations[j].pending # {}

\* The free requests of every job carry non-empty, pairwise disjoint sets
\* of ranks of the job's R
FreesDisjoint ==
    \A j \in Jobs :
       /\ \A i \in 1..Len(frees[j]) :
            frees[j][i] # {} /\ frees[j][i] \subseteq jobs[j].R
       /\ \A i, k \in 1..Len(frees[j]) :
            i # k => frees[j][i] \cap frees[j][k] = {}

\* A tracked allocation has ranks left, they are the ranks of R that were
\* not freed, and no rank that was freed is pending
TrackedHasRest ==
    \A j \in Tracked :
       /\ allocations[j].rl # {}
       /\ allocations[j].rl = jobs[j].R \ Freed(j)
       /\ allocations[j].pending \cap Freed(j) = {}

\* A completion or a timer expiry that retires an allocation has sent the
\* free request for the last of its ranks
RetiredWhenEmpty ==
    \A j \in Tracked :
       out'.kind # "hello" /\ j \notin DOMAIN allocations'
       => /\ Len(frees'[j]) = Len(frees[j]) + 1
          /\ frees'[j][Len(frees'[j])] = allocations[j].rl

\* C37: for every job, under every release-after policy and every order of
\* script completions and timer expiry, no free request includes a rank
\* that is still pending, the rank sets of the job's free requests are
\* pairwise disjoint subsets of R, none is empty, and the allocation is
\* removed from tracking exactly when its remaining R becomes empty.
C37_Frees ==
    [](FreesDisjoint /\ TrackedHasRest) /\ [][RetiredWhenEmpty]_vars

\* C37: a job of three ranks was freed by two requests and retired, with a
\* timer that was armed for the other job
C37_Witness ==
    \E j \in Jobs :
       /\ jobs[j].hk /\ j \notin Tracked /\ j \notin dropped
       /\ Len(frees[j]) = 2
       /\ Freed(j) = Ranks
       /\ \E k \in Tracked : allocations[k].timer_expired

\* C38: the version of a key as returned by ll never decreases over any
\* sequence of sc, sc-stream, sc-retry and delete requests, so a version
\* that a client obtained earlier never again becomes the key's current
\* version once the key has been modified.
C38_VersionMonotonic ==
    [][\A key \in Keys : lookup(key)'.version >= lookup(key).version]_vars

\* C38, of the read-only key ".": the version that ll returns for the whole
\* pad never decreases.
C38_PadVersionMonotonic ==
    [][lookup(".")'.version >= lookup(".").version]_vars

\* C38: key "a" was stored, deleted and stored again: ll returns version 1
\* for it a second time, with the pad at version 3
C38_VersionReused ==
    /\ sp_version = 3
    /\ "a" \in DOMAIN sp_data
    /\ lookup("a").version = 1

\* ---------------------------------------------------------------------
\* C39: payload set and get

\* flux_msg_get_payload (msg, &buf, &size): EPROTO without the PAYLOAD
\* flag, else the block and payload_size
flux_msg_get_payload(msg) ==
    IF FLUX_MSGFLAG_PAYLOAD \notin msg.flags
    THEN [rc |-> -1, errno |-> "EPROTO", buf |-> <<>>, size |-> 0]
    ELSE [rc |-> 0, errno |-> "",
          buf |-> SegTake(msg.payload, msg.payload_size),
          size |-> msg.payload_size]

\* The last call was a flux_msg_set_payload that returned 0
PayloadWasSet == fm_out.op = "set_payload" /\ fm_out.rc = 0

\* get_payload returns exactly the size bytes of buf that were set
GetsWhatWasSet ==
    /\ flux_msg_get_payload(fm).rc = 0
    /\ flux_msg_get_payload(fm).size = fm_out.size
    /\ flux_msg_get_payload(fm).buf = <<Seg(fm_out.id, 0, fm_out.size)>>

\* The payload is gone and so is its flag
PayloadRemoved ==
    /\ FLUX_MSGFLAG_PAYLOAD \notin fm.flags
    /\ flux_msg_get_payload(fm).rc = -1
    /\ flux_msg_get_payload(fm).errno = "EPROTO"

\* C39: after flux_msg_set_payload (buf, size) with size > 0,
\* flux_msg_get_payload returns exactly size bytes equal to buf whatever
\* payload the message held before, and after a set_payload with a NULL
\* buffer or size 0 the payload is removed and the PAYLOAD flag is clear
C39_SetGet ==
    PayloadWasSet =>
        IF fm_out.id # NULL /\ fm_out.size > 0
        THEN GetsWhatWasSet
        ELSE PayloadRemoved

\* C39 for a message that held no payload or one no longer than size:
\* a step of set_payload that returns 0 leaves exactly what was set, and
\* one with a NULL buffer or size 0 removes the payload
C39_SetGetNotShorter ==
    [][(PayloadWasSet' /\ fm_out'.id # NULL /\ fm_out'.size > 0
           /\ (FLUX_MSGFLAG_PAYLOAD \in fm.flags
                  => fm.payload_size <= fm_out'.size)
          => GetsWhatWasSet')
       /\ (PayloadWasSet' /\ (fm_out'.id = NULL \/ fm_out'.size = 0)
          => PayloadRemoved')]_vars

\* A shorter payload was set over a longer one: get_payload returns the
\* old size, the new bytes followed by the tail of the old ones
C39_StaleTail ==
    /\ PayloadWasSet
    /\ fm_out.id = "p" /\ fm_out.size = 1
    /\ flux_msg_get_payload(fm).size = 300
    /\ flux_msg_get_payload(fm).buf = <<Seg("p", 0, 1), Seg("P", 1, 299)>>

\* ---------------------------------------------------------------------
\* C40: the test_pause bit of a child

\* The message child_cb read was a TEST_PAUSE keepalive
ReadTestPause ==
    /\ ov_out'.in.type = "keepalive"
    /\ ov_out'.in.status = KEEPALIVE_STATUS_TEST_PAUSE

\* The test_pause bit of child n is that of the last message read from
\* it: set by a TEST_PAUSE keepalive, cleared by any other message, and
\* left alone by every other step
BitFollowsMessages(n) ==
    ov'.children[n].test_pause =
        IF FromChild(n) THEN ReadTestPause ELSE ov.children[n].test_pause

\* The step that changed the bit of child n has answered every monitor
\* request with the idle flag it gave the child, if it changed the flag
ScanReported(n) ==
    ov'.children[n].idle # ov.children[n].idle =>
        \E i \in 1..Len(ov_out'.updates) :
            /\ ov_out'.updates[i].rank = ov.children[n].rank
            /\ ov_out'.updates[i].idle = ov'.children[n].idle

\* C40: a child's test_pause bit is set only by a TEST_PAUSE keepalive
\* received from that child and cleared by the next message of any other
\* kind received from it; the step that sets the bit leaves the child
\* idle and the step that clears it leaves the child not idle, without a
\* sync tick in between
C40_TestPause ==
    [][\A n \in 1..Len(ov.children) :
          /\ BitFollowsMessages(n)
          /\ ov'.children[n].test_pause # ov.children[n].test_pause =>
                /\ ov'.children[n].idle = ov'.children[n].test_pause
                /\ ScanReported(n)]_vars

\* C40 with the idle scan as overlay_log_idle_children runs it: the step
\* that clears the bit leaves the child not idle when the message was not
\* a DISCONNECT keepalive, and leaves the idle flag as it was when it was
\* one
C40_TestPauseConnected ==
    [][\A n \in 1..Len(ov.children) :
          /\ BitFollowsMessages(n)
          /\ ov'.children[n].test_pause # ov.children[n].test_pause =>
                /\ ov'.children[n].idle =
                       IF ReadDisconnect THEN ov.children[n].idle
                       ELSE ov'.children[n].test_pause
                /\ ScanReported(n)]_vars

\* A paused child was found idle at once: the TEST_PAUSE keepalive was
\* just read, no time has passed since
C40_IdleAtOnce ==
    /\ ov_out.op = "child_cb"
    /\ ov_out.in.type = "keepalive"
    /\ ov_out.in.status = KEEPALIVE_STATUS_TEST_PAUSE
    /\ ov.children[1].test_pause
    /\ ov.children[1].idle
    /\ ov.children[1].lastseen = ov.now
    /\ Len(ov_out.updates) > 0

\* The first message after the TEST_PAUSE keepalive was a DISCONNECT
\* keepalive: the bit is clear and the child is still idle
C40_StillIdle ==
    /\ ov_out.op = "child_cb"
    /\ ov_out.in.type = "keepalive"
    /\ ov_out.in.status = KEEPALIVE_STATUS_DISCONNECT
    /\ ~ov.children[1].test_pause
    /\ ~ov.children[1].connected
    /\ ov.children[1].idle
    /\ ov.children[1].lastseen = ov.now
    /\ ov.now < idle_max

====
